---- MODULE Spec2Model ----
(***************************************************************************)
(* idiosync: synchronization of a destination user database (SQLAlchemy)   *)
(* from an LDAP directory through the content synchronization protocol     *)
(* (RFC 4533).                                                             *)
(*                                                                         *)
(* The Watcher (src/idiosync/ldap.py, LdapDatabase.watch) turns protocol   *)
(* responses into events; the Reconciler (idiosync/sync.py, described in   *)
(* spec.md section 4.2) consumes the events and applies them to the        *)
(* destination (src/idiosync/sqlalchemy.py).                               *)
(***************************************************************************)
EXTENDS Integers, Sequences, FiniteSets, TLC

VARIABLES
    persist,        \* synchronize(persist=...)
    strict,         \* synchronize(strict=...)
    delete,         \* synchronize(delete=...)
    pc,             \* position of the synchronization run
    cycle,          \* number of cycles started
    rows,           \* destination rows as the SQLAlchemy session sees them
    committed,      \* destination rows durably committed
    nextKey,        \* next native (autoincrement) key of the destination
    stateSession,   \* state table (key "cookie") as the session sees it
    stateDurable,   \* state table durably committed
    stateCache,     \* SqlState.rows: the cached lookup of key "cookie"
    reqCookie,      \* cookie given to the Watcher's search
    seen,           \* Reconciler: identifiers seen in this refresh
    held,           \* Reconciler: latest SyncCookie value of this cycle
    nresp,          \* Watcher: responses fetched (of the script: in this cycle)
    pending,        \* Watcher: events of the current response not yet consumed
    werr,           \* Watcher: error raised once pending is consumed
    wstop,          \* Watcher: iteration ends once pending is consumed
    script,         \* responses the server sends (empty: any response)
    rowsAtStart,    \* history: durable rows when the cycle started
    cookieAtStart,  \* history: durable cookie when the cycle started
    firstRun,       \* history: durable rows after the first cycle's commit
    prevEnd,        \* history: how the previous cycle ended (pc at the start)
    wcookie,        \* history: the SyncCookie events the Watcher emitted
    lastOp,         \* history: the last operation and what it was given
    trace,          \* watch(trace=...)
    vendor,         \* the source database is an IpaDatabase
    out,            \* what the Watcher has yielded to its consumer, in order
    searches,       \* sync searches issued (search_ext calls)
    traceIn,        \* trace codec: the control or response given to encode
    traceText,      \* trace codec: the text written
    traceOut,       \* trace codec: what decoding the text gave
    sessions,       \* concurrent runs: each run's session and position
    store,          \* concurrent runs: the destination's durable tables
    kvstore,        \* state store: SqlState.rows and the session's state table
    kvlog           \* history: the state store's last operation and the
                    \* values set and not deleted since

vars == <<persist, strict, delete, pc, cycle, rows, committed, nextKey,
          stateSession, stateDurable, stateCache, reqCookie, seen, held,
          nresp, pending, werr, wstop, script, rowsAtStart, cookieAtStart,
          firstRun, prevEnd, wcookie, lastOp, trace, vendor, out, searches,
          traceIn, traceText, traceOut, sessions, store, kvstore, kvlog>>

\* The variables of the Watcher's consumer, of the trace codec, of the
\* concurrent runs and of the state store
wvars == <<trace, vendor, out, searches>>
tvars == <<traceIn, traceText, traceOut>>
cvars == <<sessions, store>>
svars == <<kvstore, kvlog>>

----------------------------------------------------------------------------
(* Bounds and value domains                                                *)

MaxResponses == 4
MaxCycles == 2
MaxScript == 3

None == "None"
SyncIds == {"U1", "U2"}
Names == {"a", "b"}
Cookies == {"c1", "c2"}
Kinds == {"User", "Group"}

----------------------------------------------------------------------------
(* Events (idiosync/base.py: Entry, UnchangedSyncIds, DeletedSyncIds,      *)
(* RefreshComplete, SyncCookie), one record shape for all variants         *)

Event(type, kind, syncid, name, ids, autodelete, cookie) ==
    [type |-> type, kind |-> kind, syncid |-> syncid, name |-> name,
     ids |-> ids, autodelete |-> autodelete, cookie |-> cookie]

ChangedEntry(kind, syncid, name) ==
    Event("ChangedEntry", kind, syncid, name, {}, FALSE, None)

UnchangedSyncIds(ids) ==
    Event("UnchangedSyncIds", None, None, None, ids, FALSE, None)

DeletedSyncIds(ids) ==
    Event("DeletedSyncIds", None, None, None, ids, FALSE, None)

RefreshComplete(autodelete) ==
    Event("RefreshComplete", None, None, None, {}, autodelete, None)

SyncCookie(cookie) ==
    Event("SyncCookie", None, None, None, {}, FALSE, cookie)

----------------------------------------------------------------------------
(* Protocol responses (LdapResult): type, data items, response controls    *)

RES_SEARCH_ENTRY == "RES_SEARCH_ENTRY"
RES_INTERMEDIATE == "RES_INTERMEDIATE"
RES_SEARCH_RESULT == "RES_SEARCH_RESULT"
RES_EXTENDED == "RES_EXTENDED"

\* A response control; ctype is the class it was decoded to
Control(ctype, state, entryUUID, cookie, refreshDeletes) ==
    [ctype |-> ctype, state |-> state, entryUUID |-> entryUUID,
     cookie |-> cookie, refreshDeletes |-> refreshDeletes]

SyncStateControl(state, entryUUID, cookie) ==
    Control("SyncStateControl", state, entryUUID, cookie, FALSE)

SyncDoneControl(cookie, refreshDeletes) ==
    Control("SyncDoneControl", None, None, cookie, refreshDeletes)

OtherControl == Control("Other", None, None, None, FALSE)

NoControl == Control(None, None, None, None, FALSE)

\* The attributes of an entry that the synchronization reads
Attrs(objectclass, entryuuid, cn) ==
    [objectclass |-> objectclass, entryuuid |-> entryuuid, cn |-> cn]

NoAttrs == Attrs(<<>>, None, None)

\* A decoded syncInfoValue: the CHOICE taken and its fields
SyncInfoMessage(choice, cookie, refreshDone, refreshDeletes, syncUUIDs) ==
    [choice |-> choice, cookie |-> cookie, refreshDone |-> refreshDone,
     refreshDeletes |-> refreshDeletes, syncUUIDs |-> syncUUIDs]

NoMessage == SyncInfoMessage(None, None, FALSE, FALSE, {})

SyncInfoName == "1.3.6.1.4.1.4203.1.9.1.4"

\* A data item: (dn, attrs, ctrls) of an entry, (rname, msg, ctrls) of an
\* intermediate message
DataItem(name, attrs, msg, ctrls) ==
    [name |-> name, attrs |-> attrs, msg |-> msg, ctrls |-> ctrls]

LdapResult(type, data, ctrls) ==
    [type |-> type, data |-> data, ctrls |-> ctrls]

----------------------------------------------------------------------------
(* Directory Watcher: src/idiosync/ldap.py                                 *)

\* str.lower() on the object class names that occur
Lower(s) ==
    CASE s = "Person" -> "person"
      [] s = "PERSON" -> "person"
      [] s = "groupOfNames" -> "groupofnames"
      [] s = "GroupOfNames" -> "groupofnames"
      [] OTHER -> s

\* LdapUser.model / LdapGroup.model object classes
UserObjectClass == "person"
GroupObjectClass == "groupOfNames"

\* The result of processing (part of) a response: the events yielded in
\* order and the exception raised after them ("" when none)
Yield(events, err) == [events |-> events, err |-> err]

\* Mutant of FirstControl: the class of the control is not tested
FirstControlAny(ctrls, ctype) ==
    IF ctrls = <<>> THEN [ctype |-> None, state |-> None, entryUUID |-> None,
                          cookie |-> None, refreshDeletes |-> FALSE]
    ELSE Head(ctrls)

\* next((ctrl for ctrl in ctrls if isinstance(ctrl, cls)), None)
RECURSIVE FirstControl(_, _)
FirstControl(ctrls, ctype) ==
    IF ctrls = <<>> THEN NoControl
    ELSE IF Head(ctrls).ctype = ctype THEN Head(ctrls)
    ELSE FirstControl(Tail(ctrls), ctype)

\* next((SyncInfoMessage(msg) for rname, msg, ctrls in res.data
\*       if rname == SyncInfoMessage.responseName), None)
RECURSIVE FirstSyncInfo(_)
FirstSyncInfo(data) ==
    IF data = <<>> THEN NoMessage
    ELSE IF Head(data).name = SyncInfoName THEN Head(data).msg
    ELSE FirstSyncInfo(Tail(data))

\* Mutant of Constructor: the User object class is looked for in the whole
\* list before the Group object class
ConstructorUserFirst(objectclasses) ==
    IF \E i \in DOMAIN objectclasses :
          Lower(objectclasses[i]) = Lower(UserObjectClass) THEN "User"
    ELSE IF \E i \in DOMAIN objectclasses :
          Lower(objectclasses[i]) = Lower(GroupObjectClass) THEN "Group"
    ELSE None

\* The loop over attrs['objectclass']: the first value that is the User or
\* the Group object class decides the constructor; None when there is none
RECURSIVE Constructor(_)
Constructor(objectclasses) ==
    IF objectclasses = <<>> THEN None
    ELSE IF Lower(Head(objectclasses)) = Lower(UserObjectClass) THEN "User"
    ELSE IF Lower(Head(objectclasses)) = Lower(GroupObjectClass) THEN "Group"
    ELSE Constructor(Tail(objectclasses))

\* Mutant of CookieEvents: the cookie is not tested for None
CookieEventsAlways(cookie) == <<SyncCookie(cookie)>>

\* Update cookie if applicable
CookieEvents(cookie) ==
    IF cookie # None THEN <<SyncCookie(cookie)>> ELSE <<>>

\* LdapEntryUuidAttribute.__set__: the entryUUID attribute is populated from
\* the syncStateControl value
entry_uuid_set(attrs, value) == [attrs EXCEPT !.entryuuid = value]

\* Mutant of watch_res_search_entry: the entry's own identifier is not
\* compared with the control's
watch_res_search_entryNoCheck(dn, attrs, sync) ==
    LET syncid == sync.entryUUID
        constructor == Constructor(attrs.objectclass)
        entry == IF attrs.entryuuid = None THEN entry_uuid_set(attrs, syncid)
                 ELSE attrs
    IN  IF sync.state = "present"
        THEN Yield(<<UnchangedSyncIds({syncid})>> \o CookieEvents(sync.cookie), "")
        ELSE IF sync.state = "delete"
        THEN Yield(<<DeletedSyncIds({syncid})>> \o CookieEvents(sync.cookie), "")
        ELSE IF constructor = None
        THEN Yield(<<>>, "LdapUnrecognisedEntryError")
        ELSE Yield(<<ChangedEntry(constructor, entry.entryuuid, entry.cn)>>
                       \o CookieEvents(sync.cookie), "")

\* LdapDatabase._watch_res_search_entry
watch_res_search_entry(dn, attrs, sync) ==
    LET syncid == sync.entryUUID
        constructor == Constructor(attrs.objectclass)
        entry == IF attrs.entryuuid = None THEN entry_uuid_set(attrs, syncid)
                 ELSE attrs
    IN  IF sync.state = "present"
        THEN Yield(<<UnchangedSyncIds({syncid})>> \o CookieEvents(sync.cookie), "")
        ELSE IF sync.state = "delete"
        THEN Yield(<<DeletedSyncIds({syncid})>> \o CookieEvents(sync.cookie), "")
        ELSE IF constructor = None
        THEN Yield(<<>>, "LdapUnrecognisedEntryError")
        ELSE IF attrs.entryuuid # None /\ attrs.entryuuid # syncid
        THEN Yield(<<>>, "LdapSyncIdMismatchError")
        ELSE Yield(<<ChangedEntry(constructor, entry.entryuuid, entry.cn)>>
                       \o CookieEvents(sync.cookie), "")

\* Mutant of watch_res_intermediate: the two phase markers are exchanged
watch_res_intermediateSwapped(sync) ==
    IF sync.choice = "newcookie"
    THEN Yield(CookieEvents(sync.cookie), "")
    ELSE IF sync.choice = "refreshDelete"
    THEN Yield((IF sync.refreshDone THEN <<RefreshComplete(TRUE)>> ELSE <<>>)
                   \o CookieEvents(sync.cookie), "")
    ELSE IF sync.choice = "refreshPresent"
    THEN Yield((IF sync.refreshDone THEN <<RefreshComplete(FALSE)>> ELSE <<>>)
                   \o CookieEvents(sync.cookie), "")
    ELSE IF sync.choice = "syncIdSet"
    THEN Yield(<<IF sync.refreshDeletes THEN DeletedSyncIds(sync.syncUUIDs)
                 ELSE UnchangedSyncIds(sync.syncUUIDs)>>
                   \o CookieEvents(sync.cookie), "")
    ELSE Yield(<<>>, "LdapProtocolError")

\* LdapDatabase._watch_res_intermediate
watch_res_intermediate(sync) ==
    IF sync.choice = "newcookie"
    THEN Yield(CookieEvents(sync.cookie), "")
    ELSE IF sync.choice = "refreshDelete"
    THEN Yield((IF sync.refreshDone THEN <<RefreshComplete(FALSE)>> ELSE <<>>)
                   \o CookieEvents(sync.cookie), "")
    ELSE IF sync.choice = "refreshPresent"
    THEN Yield((IF sync.refreshDone THEN <<RefreshComplete(TRUE)>> ELSE <<>>)
                   \o CookieEvents(sync.cookie), "")
    ELSE IF sync.choice = "syncIdSet"
    THEN Yield(<<IF sync.refreshDeletes THEN DeletedSyncIds(sync.syncUUIDs)
                 ELSE UnchangedSyncIds(sync.syncUUIDs)>>
                   \o CookieEvents(sync.cookie), "")
    ELSE Yield(<<>>, "LdapProtocolError")

\* LdapDatabase._watch_res_search_result
watch_res_search_resultCookieFirst(sync) ==
    Yield(CookieEvents(sync.cookie) \o <<RefreshComplete(~sync.refreshDeletes)>>, "")

watch_res_search_result(sync) ==
    Yield(<<RefreshComplete(~sync.refreshDeletes)>> \o CookieEvents(sync.cookie), "")

\* The loop over res.data of a search entry response in LdapDatabase.watch:
\* the events of the items in order, up to the first item that raises
RECURSIVE watch_search_entries(_)
watch_search_entries(data) ==
    IF data = <<>> THEN Yield(<<>>, "")
    ELSE LET item == Head(data)
             sync == FirstControl(item.ctrls, "SyncStateControl")
             one == IF sync = NoControl
                    THEN Yield(<<>>, "LdapProtocolError")
                    ELSE watch_res_search_entry(item.name, item.attrs, sync)
             rest == watch_search_entries(Tail(data))
         IN  IF one.err # "" THEN one
             ELSE Yield(one.events \o rest.events, rest.err)

\* Mutant of watch: the loop does not end after a search result
watchNoBreak(res) ==
    IF res.type = RES_SEARCH_ENTRY
    THEN LET y == watch_search_entries(res.data)
         IN  [events |-> y.events, err |-> y.err, stop |-> FALSE]
    ELSE IF res.type = RES_INTERMEDIATE
    THEN LET sync == FirstSyncInfo(res.data)
             y == IF sync = NoMessage
                  THEN Yield(<<>>, "LdapProtocolError")
                  ELSE watch_res_intermediate(sync)
         IN  [events |-> y.events, err |-> y.err, stop |-> FALSE]
    ELSE IF res.type = RES_SEARCH_RESULT
    THEN LET sync == FirstControl(res.ctrls, "SyncDoneControl")
         IN  IF sync = NoControl
             THEN [events |-> <<>>, err |-> "LdapProtocolError", stop |-> FALSE]
             ELSE [events |-> watch_res_search_result(sync).events,
                   err |-> "", stop |-> FALSE]
    ELSE [events |-> <<>>, err |-> "LdapProtocolError", stop |-> FALSE]

\* Mutant of watch: the loop ends after an intermediate response that
\* completes the refresh
watchBreaksOnRefreshComplete(res) ==
    IF res.type = RES_SEARCH_ENTRY
    THEN LET y == watch_search_entries(res.data)
         IN  [events |-> y.events, err |-> y.err, stop |-> FALSE]
    ELSE IF res.type = RES_INTERMEDIATE
    THEN LET sync == FirstSyncInfo(res.data)
             y == IF sync = NoMessage
                  THEN Yield(<<>>, "LdapProtocolError")
                  ELSE watch_res_intermediate(sync)
         IN  [events |-> y.events, err |-> y.err,
              stop |-> \E i \in DOMAIN y.events :
                          y.events[i].type = "RefreshComplete"]
    ELSE IF res.type = RES_SEARCH_RESULT
    THEN LET sync == FirstControl(res.ctrls, "SyncDoneControl")
         IN  IF sync = NoControl
             THEN [events |-> <<>>, err |-> "LdapProtocolError", stop |-> FALSE]
             ELSE [events |-> watch_res_search_result(sync).events,
                   err |-> "", stop |-> TRUE]
    ELSE [events |-> <<>>, err |-> "LdapProtocolError", stop |-> FALSE]

\* One iteration of the loop of LdapDatabase.watch on response res: the
\* events yielded, the exception raised after them, and whether the loop
\* ends (break) after them
watch(res) ==
    IF res.type = RES_SEARCH_ENTRY
    THEN LET y == watch_search_entries(res.data)
         IN  [events |-> y.events, err |-> y.err, stop |-> FALSE]
    ELSE IF res.type = RES_INTERMEDIATE
    THEN LET sync == FirstSyncInfo(res.data)
             y == IF sync = NoMessage
                  THEN Yield(<<>>, "LdapProtocolError")
                  ELSE watch_res_intermediate(sync)
         IN  [events |-> y.events, err |-> y.err, stop |-> FALSE]
    ELSE IF res.type = RES_SEARCH_RESULT
    THEN LET sync == FirstControl(res.ctrls, "SyncDoneControl")
         IN  IF sync = NoControl
             THEN [events |-> <<>>, err |-> "LdapProtocolError", stop |-> FALSE]
             ELSE [events |-> watch_res_search_result(sync).events,
                   err |-> "", stop |-> TRUE]
    ELSE [events |-> <<>>, err |-> "LdapProtocolError", stop |-> FALSE]

----------------------------------------------------------------------------
(* Destination: src/idiosync/sqlalchemy.py                                 *)

\* A destination row: native key, table (User or Group), the syncid column
\* (None: NULL) and the name attribute
Row(key, kind, syncid, name) ==
    [key |-> key, kind |-> kind, syncid |-> syncid, name |-> name]

NoRow == Row(0, None, None, None)

\* Marks a query that one_or_none() refuses (MultipleResultsFound)
ManyRows == Row(0, "MultipleResultsFound", None, None)

\* Query.one_or_none()
one_or_none(found) ==
    IF found = {} THEN NoRow
    ELSE IF Cardinality(found) = 1 THEN CHOOSE r \in found : TRUE
    ELSE ManyRows

\* Mutant of find_syncid: the lookup never finds a row
find_syncidNone(tbl, kind, syncid) == NoRow

\* Mutant of find_syncid: the query does not see the session's pending rows
find_syncidNoFlush(tbl, kind, syncid) ==
    one_or_none({r \in tbl \cap committed :
                    r.kind = kind /\ r.syncid # None /\ r.syncid = syncid})

\* Mutant of find_syncid: the query is not restricted to the entry's table
find_syncidAnyKind(tbl, kind, syncid) ==
    one_or_none({r \in tbl : r.syncid # None /\ r.syncid = syncid})

\* SqlEntry.find_syncid: query_syncid(attr == syncid).one_or_none()
find_syncid(tbl, kind, syncid) ==
    one_or_none({r \in tbl : r.kind = kind /\ r.syncid # None /\ r.syncid = syncid})

\* Mutant of find_syncids: the identifier is not required to be non-null
find_syncidsNullable(tbl, kind, syncids, invert) ==
    {r \in tbl : /\ r.kind = kind
                 /\ IF invert THEN r.syncid \notin syncids
                    ELSE r.syncid \in syncids}

\* Mutant of find_syncids: invert is ignored
find_syncidsNoInvert(tbl, kind, syncids, invert) ==
    {r \in tbl : r.kind = kind /\ r.syncid # None /\ r.syncid \in syncids}

\* SqlEntry.find_syncids: attr IS NOT NULL AND attr [NOT] IN syncids
find_syncids(tbl, kind, syncids, invert) ==
    {r \in tbl : /\ r.kind = kind
                 /\ r.syncid # None
                 /\ IF invert THEN r.syncid \notin syncids
                    ELSE r.syncid \in syncids}

\* SqlEntry.create: a new row of the table added to the session
create(tbl, kind, key) == tbl \cup {Row(key, kind, None, None)}

\* Mutant of delete_row: the row is not deleted
delete_rowNothing(tbl, row) == tbl

\* SqlEntry.delete: the row deleted from the session
delete_row(tbl, row) == tbl \ {row}

\* Mutant of set_row: the syncid column is not written
set_rowNoSyncid(tbl, row, syncid, name) ==
    (tbl \ {row}) \cup {Row(row.key, row.kind, row.syncid, name)}

\* SqlEntry.syncid setter and SqlAttribute.__set__ on the row
set_row(tbl, row, syncid, name) ==
    (tbl \ {row}) \cup {Row(row.key, row.kind, syncid, name)}

\* SqlState: keys of the state table; a key maps to its value, None when the
\* table has no row for it
StateKeys == {"cookie"}

\* SqlState.__getitem__: the cached row if the key was looked up before,
\* else the row the query finds; the result is the value read (None:
\* KeyError) and the cache after the call
state_getitem(cache, tbl, key) ==
    LET row == IF cache[key] # "unloaded" THEN cache[key]
               ELSE IF tbl[key] = None THEN "none" ELSE "row"
    IN  [value |-> IF row = "none" THEN None ELSE tbl[key],
         cache |-> [cache EXCEPT ![key] = row]]

\* Mutant of state_setitem: the value of a row that exists is not replaced
state_setitemNoUpdate(cache, tbl, key, value) ==
    [tbl |-> IF tbl[key] = None THEN [tbl EXCEPT ![key] = value] ELSE tbl,
     cache |-> [cache EXCEPT ![key] = "row"]]

\* SqlState.__setitem__: the cached or queried row, created when there is
\* none, gets the value; the result is the session's table and the cache
state_setitem(cache, tbl, key, value) ==
    LET row == IF cache[key] # "unloaded" THEN cache[key]
               ELSE IF tbl[key] = None THEN "none" ELSE "row"
        added == IF row = "none" THEN [tbl EXCEPT ![key] = None] ELSE tbl
        current == added[key]
    IN  [tbl |-> IF value # current THEN [added EXCEPT ![key] = value] ELSE added,
         cache |-> [cache EXCEPT ![key] = "row"]]

----------------------------------------------------------------------------
(* The server: the responses a synchronization search may receive          *)

EntryResponse(state, syncid, cookie, objectclass, entryuuid, cn) ==
    LdapResult(RES_SEARCH_ENTRY,
               <<DataItem("dn", Attrs(objectclass, entryuuid, cn), NoMessage,
                          <<SyncStateControl(state, syncid, cookie)>>)>>,
               <<>>)

IntermediateResponse(msg) ==
    LdapResult(RES_INTERMEDIATE, <<DataItem(SyncInfoName, NoAttrs, msg, <<>>)>>, <<>>)

ResultResponse(cookie, refreshDeletes) ==
    LdapResult(RES_SEARCH_RESULT, <<>>, <<SyncDoneControl(cookie, refreshDeletes)>>)

\* Responses the Watcher refuses
BadResponses ==
    { \* search entry without a syncStateControl
      LdapResult(RES_SEARCH_ENTRY,
                 <<DataItem("dn", Attrs(<<"person">>, None, "a"), NoMessage,
                            <<OtherControl>>)>>, <<>>),
      \* an entry with a cookie, then an entry without a syncStateControl
      LdapResult(RES_SEARCH_ENTRY,
                 <<DataItem("dn", NoAttrs, NoMessage,
                            <<SyncStateControl("present", "U1", "c2")>>),
                   DataItem("dn", Attrs(<<"person">>, None, "a"), NoMessage, <<>>)>>,
                 <<>>),
      \* an entry of no configured object class
      EntryResponse("add", "U1", "c2", <<"top">>, None, "a"),
      \* an entry whose entryUUID is not the control's
      EntryResponse("modify", "U1", "c2", <<"person">>, "U2", "a"),
      \* an intermediate response that is no syncInfoMessage
      LdapResult(RES_INTERMEDIATE, <<DataItem("other", NoAttrs, NoMessage, <<>>)>>, <<>>),
      \* a syncInfoMessage of no known choice
      IntermediateResponse(SyncInfoMessage("unknown", "c2", FALSE, FALSE, {})),
      \* a search result without a syncDoneControl
      LdapResult(RES_SEARCH_RESULT, <<>>, <<OtherControl>>),
      \* a response of another type
      LdapResult(RES_EXTENDED, <<>>, <<>>) }

ServerResponses ==
    {EntryResponse("add", "U1", None, <<"top", "Person">>, None, "a"),
     EntryResponse("add", "U2", "c1", <<"person">>, None, "a"),
     EntryResponse("modify", "U1", None, <<"person">>, "U1", "b"),
     EntryResponse("add", "U1", None, <<"GroupOfNames", "person">>, None, "a")}
    \cup {EntryResponse(st, "U1", None, <<>>, None, None) :
        st \in {"present", "delete"}}
    \cup {EntryResponse("present", "U2", "c2", <<>>, None, None),
          EntryResponse("delete", "U2", "c1", <<>>, None, None)}
    \cup {IntermediateResponse(SyncInfoMessage("newcookie", "c1", FALSE, FALSE, {}))}
    \cup {IntermediateResponse(SyncInfoMessage(ch, "c2", done, FALSE, {})) :
        ch \in {"refreshDelete", "refreshPresent"}, done \in BOOLEAN}
    \cup {IntermediateResponse(SyncInfoMessage("syncIdSet", None, FALSE, del, SyncIds)) :
        del \in BOOLEAN}
    \cup {ResultResponse(c, del) : c \in {None, "c2"}, del \in BOOLEAN}
    \cup BadResponses

\* The responses of the scripted (replayed) streams
ReplayResponses ==
    {EntryResponse("add", "U1", None, <<"person">>, None, "a"),
     EntryResponse("add", "U2", "c1", <<"person">>, None, "a"),
     EntryResponse("modify", "U1", None, <<"person">>, "U1", "b"),
     EntryResponse("delete", "U1", None, <<>>, None, None),
     EntryResponse("present", "U2", None, <<>>, None, None),
     IntermediateResponse(SyncInfoMessage("refreshPresent", None, TRUE, FALSE, {}))}

ReplayLast ==
    {ResultResponse("c2", FALSE), ResultResponse("c2", TRUE),
     LdapResult(RES_EXTENDED, <<>>, <<>>)}

\* Streams of at most MaxScript responses that end with a search result or
\* with a response the Watcher refuses
RECURSIVE Streams(_)
Streams(n) ==
    IF n = 0 THEN {<<>>}
    ELSE Streams(n - 1)
         \cup {<<r>> \o s : r \in ReplayResponses,
                            s \in {t \in Streams(n - 1) : Len(t) = n - 1}}

ReplayScripts ==
    {s \o <<r>> : s \in Streams(MaxScript - 1), r \in ReplayLast}

\* The scenario's second stream: user A (U1) and group G (G1) changed, U1
\* deleted, then the search result (refresh complete with autodelete, cookie)
ScenarioStream ==
    <<EntryResponse("add", "U1", None, <<"person">>, None, "a"),
      EntryResponse("add", "G1", None, <<"groupOfNames">>, None, "g"),
      EntryResponse("delete", "U1", None, <<>>, None, None),
      ResultResponse("c1", FALSE)>>

\* Destinations a run may start from: at most one row per identifier and
\* table, at most one unmatched row per name and table
InitialDestinations ==
    { {},
      {Row(1, "User", None, "a")},
      {Row(1, "User", "U1", "a")},
      {Row(1, "User", "U1", "a"), Row(2, "User", "U2", "b")},
      {Row(1, "User", None, "a"), Row(2, "Group", "U1", "a")} }

----------------------------------------------------------------------------
(* Initial states                                                          *)

\* The SyncCookie events of a cycle so far: the last value, the one before
\* it, and whether the last came in a response with no other event; and the
\* number of RefreshComplete events of the cycle so far
NoCookies == [last |-> None, prev |-> None, alone |-> FALSE, complete |-> 0]

RECURSIVE Emitted(_, _, _)
Emitted(w, events, alone) ==
    IF events = <<>> THEN w
    ELSE IF Head(events).type = "SyncCookie"
    THEN Emitted([w EXCEPT !.last = Head(events).cookie, !.prev = w.last,
                           !.alone = alone],
                 Tail(events), alone)
    ELSE IF Head(events).type = "RefreshComplete"
    THEN Emitted([w EXCEPT !.complete = w.complete + 1], Tail(events), alone)
    ELSE Emitted(w, Tail(events), alone)

NoEvent == Event(None, None, None, None, {}, FALSE, None)

\* No response
NoResult == LdapResult(None, <<>>, <<>>)

\* The last operation: the event it handled and the rows before it
Op(op, ev, before) == [op |-> op, ev |-> ev, before |-> before, res |-> NoResult]

\* The last operation is the fetch of response res
Fetched(res) == [op |-> "Fetch", ev |-> NoEvent, before |-> {}, res |-> res]

InitRun ==
    /\ pc = "idle"
    /\ cycle = 0
    /\ rows \in InitialDestinations
    /\ committed = rows
    /\ nextKey = Cardinality(rows) + 1
    /\ stateSession = stateDurable
    /\ stateCache = [k \in StateKeys |-> "unloaded"]
    /\ reqCookie = None
    /\ seen = {}
    /\ held = None
    /\ nresp = 0
    /\ pending = <<>>
    /\ werr = ""
    /\ wstop = FALSE
    /\ rowsAtStart = rows
    /\ cookieAtStart = stateDurable["cookie"]
    /\ firstRun = {}
    /\ prevEnd = "idle"
    /\ wcookie = NoCookies
    /\ lastOp = Op("Init", NoEvent, {})

\* No consumer of the Watcher other than the Reconciler
WatchIdle == trace = FALSE /\ vendor = FALSE /\ out = <<>> /\ searches = 0

\* Nothing encoded or decoded
CodecIdle == traceIn = None /\ traceText = <<>> /\ traceOut = None

\* No concurrent run
ConcurrentIdle == sessions = <<>> /\ store = None

\* No operation on a state store of its own
StateIdle == kvstore = None /\ kvlog = None

\* Any flags, no cookie stored yet, any responses from the server
Init ==
    /\ persist \in BOOLEAN
    /\ strict \in BOOLEAN
    /\ delete \in BOOLEAN
    /\ stateDurable = [k \in StateKeys |-> None]
    /\ script = <<>>
    /\ InitRun
    /\ WatchIdle /\ CodecIdle /\ ConcurrentIdle /\ StateIdle

\* A persisting run whose server sends one scripted stream, cycle after cycle
InitReplay ==
    /\ persist = TRUE
    /\ strict \in BOOLEAN
    /\ delete \in BOOLEAN
    /\ stateDurable = [k \in StateKeys |-> None]
    /\ script \in ReplayScripts \cup {ScenarioStream}
    /\ InitRun
    /\ WatchIdle /\ CodecIdle /\ ConcurrentIdle /\ StateIdle

\* LdapDatabase._watch_search: the mode of the synchronization request
mode == IF persist THEN "refreshAndPersist" ELSE "refreshOnly"

----------------------------------------------------------------------------
(* Session: SqlDatabase.commit, and the loss of the session's pending      *)
(* changes when the run ends on an exception                               *)

\* Mutant of commit: nothing is made durable
commitNothing == UNCHANGED <<committed, stateDurable>>

\* SqlDatabase.commit: session.commit() makes the session's rows and state
\* rows durable
commit ==
    /\ committed' = rows
    /\ stateDurable' = stateSession

\* The session is dropped: its pending changes and the state cache are lost
Rollback ==
    /\ rows' = committed
    /\ stateSession' = stateDurable
    /\ stateCache' = [k \in StateKeys |-> "unloaded"]

----------------------------------------------------------------------------
(* Reconciler: synchronize(source, destination, persist, strict, delete)   *)

\* The cycle starts: the cookie is read from the State Store once and given
\* to the Watcher's search
StartCycle ==
    /\ pc \in {"idle", "done", "aborted", "failed"}
    /\ cycle < MaxCycles
    /\ LET got == state_getitem(stateCache, stateSession, "cookie")
       IN  /\ reqCookie' = got.value
           /\ stateCache' = got.cache
    /\ pc' = "streaming"
    /\ cycle' = cycle + 1
    /\ seen' = {}
    /\ held' = None
    /\ nresp' = IF script = <<>> THEN nresp ELSE 0
    /\ pending' = <<>>
    /\ werr' = ""
    /\ wstop' = FALSE
    /\ rowsAtStart' = committed
    /\ cookieAtStart' = stateDurable["cookie"]
    /\ prevEnd' = pc
    /\ wcookie' = NoCookies
    /\ lastOp' = Op("StartCycle", NoEvent, {})
    /\ UNCHANGED <<wvars, tvars, cvars, svars, persist, strict, delete, rows, committed, nextKey,
                   stateSession, stateDurable, script, firstRun>>

\* LdapDatabase.watch: the next response is fetched once the events of the
\* previous one are consumed, and its events are processed in order
Fetch ==
    /\ pc = "streaming"
    /\ pending = <<>>
    /\ werr = ""
    /\ ~wstop
    /\ nresp < (IF script = <<>> THEN MaxResponses ELSE Len(script))
    /\ \E res \in (IF script = <<>> THEN ServerResponses ELSE {script[nresp + 1]}) :
          LET w == watch(res)
          IN  /\ pending' = w.events
              /\ werr' = w.err
              /\ wstop' = w.stop
              /\ wcookie' = Emitted(wcookie, w.events, Len(w.events) = 1)
              /\ lastOp' = Fetched(res)
    /\ nresp' = nresp + 1
    /\ UNCHANGED <<wvars, tvars, cvars, svars, persist, strict, delete, pc, cycle, rows, committed, nextKey,
                   stateSession, stateDurable, stateCache, reqCookie, seen, held,
                   script, rowsAtStart, cookieAtStart, firstRun, prevEnd>>

\* The guess-mode match: the unmatched row (no syncid) of the same name
find_unmatched(tbl, kind, name) ==
    one_or_none({r \in tbl : r.kind = kind /\ r.syncid = None /\ r.name = name})

\* On ChangedEntry(e): the row found by permanent identifier is updated;
\* else, in guess mode, the unmatched row of e's name gets e's identifier;
\* else a new row is created.  e's identifier is recorded in seen.
OnChangedEntry ==
    /\ pc = "streaming"
    /\ pending # <<>>
    /\ Head(pending).type = "ChangedEntry"
    /\ LET e == Head(pending)
           found == find_syncid(rows, e.kind, e.syncid)
           guess == IF strict THEN NoRow ELSE find_unmatched(rows, e.kind, e.name)
       IN  /\ lastOp' = Op("ChangedEntry", e, rows)
           /\ IF found = ManyRows \/ guess = ManyRows
              THEN /\ pc' = "aborted"
                   /\ Rollback
                   /\ pending' = <<>>
                   /\ UNCHANGED <<nextKey, seen>>
              ELSE /\ pc' = pc
                   /\ pending' = Tail(pending)
                   /\ seen' = seen \cup {e.syncid}
                   /\ UNCHANGED <<stateSession, stateCache>>
                   /\ IF found # NoRow
                      THEN /\ rows' = set_row(rows, found, found.syncid, e.name)
                           /\ nextKey' = nextKey
                      ELSE IF guess # NoRow
                      THEN /\ rows' = set_row(rows, guess, e.syncid, e.name)
                           /\ nextKey' = nextKey
                      ELSE /\ rows' = set_row(create(rows, e.kind, nextKey),
                                              Row(nextKey, e.kind, None, None),
                                              e.syncid, e.name)
                           /\ nextKey' = nextKey + 1
    /\ UNCHANGED <<wvars, tvars, cvars, svars, persist, strict, delete, cycle, committed, stateDurable,
                   reqCookie, held, nresp, werr, wstop, script, rowsAtStart,
                   cookieAtStart, firstRun, prevEnd, wcookie>>

\* Mutant of OnUnchangedSyncIds: the identifiers are handled as deleted ones
OnUnchangedSyncIdsAsDeleted ==
    /\ pc = "streaming"
    /\ pending # <<>>
    /\ Head(pending).type = "UnchangedSyncIds"
    /\ rows' = IF delete
               THEN {r \in rows : r.syncid \notin Head(pending).ids}
               ELSE rows
    /\ seen' = seen \ Head(pending).ids
    /\ pending' = Tail(pending)
    /\ lastOp' = Op("UnchangedSyncIds", Head(pending), rows)
    /\ UNCHANGED <<wvars, tvars, cvars, svars, persist, strict, delete, pc, cycle, committed, nextKey,
                   stateSession, stateDurable, stateCache, reqCookie, held,
                   nresp, werr, wstop, script, rowsAtStart, cookieAtStart,
                   firstRun, prevEnd, wcookie>>

\* On UnchangedSyncIds(ids): ids are added to seen
OnUnchangedSyncIds ==
    /\ pc = "streaming"
    /\ pending # <<>>
    /\ Head(pending).type = "UnchangedSyncIds"
    /\ seen' = seen \cup Head(pending).ids
    /\ pending' = Tail(pending)
    /\ lastOp' = Op("UnchangedSyncIds", Head(pending), rows)
    /\ UNCHANGED <<wvars, tvars, cvars, svars, persist, strict, delete, pc, cycle, rows, committed, nextKey,
                   stateSession, stateDurable, stateCache, reqCookie, held,
                   nresp, werr, wstop, script, rowsAtStart, cookieAtStart,
                   firstRun, prevEnd, wcookie>>

\* The rows of both tables with (invert: without) one of the identifiers
all_syncids(tbl, syncids, invert) ==
    UNION {find_syncids(tbl, k, syncids, invert) : k \in Kinds}

\* for dst in find_syncids(...): dst.delete()
RECURSIVE delete_rows(_, _)
delete_rows(tbl, found) ==
    IF found = {} THEN tbl
    ELSE LET r == CHOOSE r \in found : TRUE
         IN  delete_rows(delete_row(tbl, r), found \ {r})

\* Mutant of OnDeletedSyncIds: seen is left alone when delete is disabled
OnDeletedSyncIdsKeepsSeen ==
    /\ pc = "streaming"
    /\ pending # <<>>
    /\ Head(pending).type = "DeletedSyncIds"
    /\ rows' = IF delete
               THEN delete_rows(rows, all_syncids(rows, Head(pending).ids, FALSE))
               ELSE rows
    /\ seen' = IF delete THEN seen \ Head(pending).ids ELSE seen
    /\ pending' = Tail(pending)
    /\ lastOp' = Op("DeletedSyncIds", Head(pending), rows)
    /\ UNCHANGED <<wvars, tvars, cvars, svars, persist, strict, delete, pc, cycle, committed, nextKey,
                   stateSession, stateDurable, stateCache, reqCookie, held,
                   nresp, werr, wstop, script, rowsAtStart, cookieAtStart,
                   firstRun, prevEnd, wcookie>>

\* On DeletedSyncIds(ids): with delete enabled the matching rows are
\* removed; ids are removed from seen
OnDeletedSyncIds ==
    /\ pc = "streaming"
    /\ pending # <<>>
    /\ Head(pending).type = "DeletedSyncIds"
    /\ rows' = IF delete
               THEN delete_rows(rows, all_syncids(rows, Head(pending).ids, FALSE))
               ELSE rows
    /\ seen' = seen \ Head(pending).ids
    /\ pending' = Tail(pending)
    /\ lastOp' = Op("DeletedSyncIds", Head(pending), rows)
    /\ UNCHANGED <<wvars, tvars, cvars, svars, persist, strict, delete, pc, cycle, committed, nextKey,
                   stateSession, stateDurable, stateCache, reqCookie, held,
                   nresp, werr, wstop, script, rowsAtStart, cookieAtStart,
                   firstRun, prevEnd, wcookie>>

\* Mutant of OnRefreshComplete: the sweep ignores the delete flag
OnRefreshCompleteUngated ==
    /\ pc = "streaming"
    /\ pending # <<>>
    /\ Head(pending).type = "RefreshComplete"
    /\ rows' = IF Head(pending).autodelete
               THEN delete_rows(rows, all_syncids(rows, seen, TRUE))
               ELSE rows
    /\ pending' = Tail(pending)
    /\ lastOp' = Op("RefreshComplete", Head(pending), rows)
    /\ UNCHANGED <<wvars, tvars, cvars, svars, persist, strict, delete, pc, cycle, committed, nextKey,
                   stateSession, stateDurable, stateCache, reqCookie, seen, held,
                   nresp, werr, wstop, script, rowsAtStart, cookieAtStart,
                   firstRun, prevEnd, wcookie>>

\* On RefreshComplete(autodelete): with autodelete and delete enabled the
\* rows whose identifier is not in seen are removed
OnRefreshComplete ==
    /\ pc = "streaming"
    /\ pending # <<>>
    /\ Head(pending).type = "RefreshComplete"
    /\ rows' = IF Head(pending).autodelete /\ delete
               THEN delete_rows(rows, all_syncids(rows, seen, TRUE))
               ELSE rows
    /\ pending' = Tail(pending)
    /\ lastOp' = Op("RefreshComplete", Head(pending), rows)
    /\ UNCHANGED <<wvars, tvars, cvars, svars, persist, strict, delete, pc, cycle, committed, nextKey,
                   stateSession, stateDurable, stateCache, reqCookie, seen, held,
                   nresp, werr, wstop, script, rowsAtStart, cookieAtStart,
                   firstRun, prevEnd, wcookie>>

\* Mutant of OnSyncCookie: the cookie is written and committed at once
OnSyncCookieEager ==
    /\ pc = "streaming"
    /\ pending # <<>>
    /\ Head(pending).type = "SyncCookie"
    /\ held' = Head(pending).cookie
    /\ LET put == state_setitem(stateCache, stateSession, "cookie",
                                Head(pending).cookie)
       IN  /\ stateSession' = put.tbl
           /\ stateCache' = put.cache
           /\ stateDurable' = put.tbl
    /\ committed' = rows
    /\ pending' = Tail(pending)
    /\ lastOp' = Op("SyncCookie", Head(pending), rows)
    /\ UNCHANGED <<wvars, tvars, cvars, svars, persist, strict, delete, pc, cycle, rows, nextKey,
                   reqCookie, seen, nresp, werr, wstop, script, rowsAtStart,
                   cookieAtStart, firstRun, prevEnd, wcookie>>

\* On SyncCookie(c): the latest value is held, nothing is written
OnSyncCookie ==
    /\ pc = "streaming"
    /\ pending # <<>>
    /\ Head(pending).type = "SyncCookie"
    /\ held' = Head(pending).cookie
    /\ pending' = Tail(pending)
    /\ lastOp' = Op("SyncCookie", Head(pending), rows)
    /\ UNCHANGED <<wvars, tvars, cvars, svars, persist, strict, delete, pc, cycle, rows, committed, nextKey,
                   stateSession, stateDurable, stateCache, reqCookie, seen,
                   nresp, werr, wstop, script, rowsAtStart, cookieAtStart,
                   firstRun, prevEnd, wcookie>>

\* A fatal Watcher error ends the cycle: nothing is committed, no cookie is
\* written
Abort ==
    /\ pc = "streaming"
    /\ pending = <<>>
    /\ werr # ""
    /\ pc' = "aborted"
    /\ Rollback
    /\ lastOp' = Op("Abort", NoEvent, {})
    /\ UNCHANGED <<wvars, tvars, cvars, svars, persist, strict, delete, cycle, committed, nextKey,
                   stateDurable, reqCookie, seen, held, nresp, pending, werr,
                   wstop, script, rowsAtStart, cookieAtStart, firstRun, prevEnd, wcookie>>

\* Mutant of Complete: the mutations are committed whatever persist is
CompleteAlwaysCommits ==
    /\ pc = "streaming"
    /\ pending = <<>>
    /\ werr = ""
    /\ wstop
    /\ commit
    /\ pc' = "cookie"
    /\ firstRun' = IF cycle = 1 /\ script # <<>> THEN rows ELSE firstRun
    /\ lastOp' = Op("Complete", NoEvent, {})
    /\ UNCHANGED <<wvars, tvars, cvars, svars, persist, strict, delete, cycle, rows, nextKey, stateSession,
                   stateCache, reqCookie, seen, held, nresp, pending, werr,
                   wstop, script, rowsAtStart, cookieAtStart, prevEnd, wcookie>>

\* Normal completion: with persist the destination mutations are committed
\* (the cookie write follows); without it they are discarded
Complete ==
    /\ pc = "streaming"
    /\ pending = <<>>
    /\ werr = ""
    /\ wstop
    /\ IF persist
       THEN /\ commit
            /\ pc' = "cookie"
            /\ firstRun' = IF cycle = 1 /\ script # <<>> THEN rows ELSE firstRun
            /\ UNCHANGED <<rows, stateSession, stateCache>>
       ELSE /\ Rollback
            /\ pc' = "done"
            /\ UNCHANGED <<committed, stateDurable, firstRun>>
    /\ lastOp' = Op("Complete", NoEvent, {})
    /\ UNCHANGED <<wvars, tvars, cvars, svars, persist, strict, delete, cycle, nextKey, reqCookie, seen,
                   held, nresp, pending, werr, wstop, script, rowsAtStart,
                   cookieAtStart, prevEnd, wcookie>>

\* After the commit the held cookie is written to the State Store, in the
\* destination's transaction
WriteCookie ==
    /\ pc = "cookie"
    /\ LET put == IF held # None
                  THEN state_setitem(stateCache, stateSession, "cookie", held)
                  ELSE [tbl |-> stateSession, cache |-> stateCache]
       IN  /\ stateSession' = put.tbl
           /\ stateCache' = put.cache
           /\ stateDurable' = put.tbl
    /\ pc' = "done"
    /\ lastOp' = Op("WriteCookie", NoEvent, {})
    /\ UNCHANGED <<wvars, tvars, cvars, svars, persist, strict, delete, cycle, rows, committed, nextKey,
                   reqCookie, seen, held, nresp, pending, werr, wstop, script,
                   rowsAtStart, cookieAtStart, firstRun, prevEnd, wcookie>>

\* A failure between the commit and the cookie write
Fail ==
    /\ pc = "cookie"
    /\ pc' = "failed"
    /\ Rollback
    /\ lastOp' = Op("Fail", NoEvent, {})
    /\ UNCHANGED <<wvars, tvars, cvars, svars, persist, strict, delete, cycle, committed, nextKey,
                   stateDurable, reqCookie, seen, held, nresp, pending, werr,
                   wstop, script, rowsAtStart, cookieAtStart, firstRun, prevEnd, wcookie>>

Next ==
    \/ StartCycle
    \/ Fetch
    \/ OnChangedEntry
    \/ OnUnchangedSyncIds
    \/ OnDeletedSyncIds
    \/ OnRefreshComplete
    \/ OnSyncCookie
    \/ Abort
    \/ Complete
    \/ WriteCookie
    \/ Fail

Spec == Init /\ [][Next]_vars

SpecReplay == InitReplay /\ [][Next]_vars

----------------------------------------------------------------------------
(* The Watcher and its consumer: LdapDatabase.watch as a generator, the    *)
(* raw responses it yields when tracing, and IpaDatabase.watch around it   *)

MaxWatch == 3

\* Mutant of ipa_watch: the two corrections are exchanged
ipa_watchExchanged(event, oneshot, incremental) ==
    IF event.type = "RefreshComplete"
    THEN IF oneshot /\ incremental THEN [event EXCEPT !.autodelete = TRUE]
         ELSE IF ~oneshot /\ ~incremental THEN [event EXCEPT !.autodelete = FALSE]
         ELSE event
    ELSE event

\* Mutant of ipa_watch: the class of the event is not tested
ipa_watchAnyEvent(event, oneshot, incremental) ==
    IF oneshot /\ incremental THEN [event EXCEPT !.autodelete = FALSE]
    ELSE IF ~oneshot /\ ~incremental THEN [event EXCEPT !.autodelete = TRUE]
    ELSE event

\* The body of the loop of IpaDatabase.watch: what is yielded for an event
\* of the underlying watch
ipa_watch(event, oneshot, incremental) ==
    IF event.type = "RefreshComplete"
    THEN IF oneshot /\ incremental THEN [event EXCEPT !.autodelete = FALSE]
         ELSE IF ~oneshot /\ ~incremental THEN [event EXCEPT !.autodelete = TRUE]
         ELSE event
    ELSE event

\* What the consumer gets for the events of one response: those of
\* LdapDatabase.watch, through IpaDatabase.watch when the database is one
\* (oneshot is no persist, incremental is a request cookie)
Yielded(events) ==
    IF vendor
    THEN [i \in DOMAIN events |-> ipa_watch(events[i], ~persist, reqCookie # None)]
    ELSE events

\* The items of out: a raw response (TraceEvent) or an event, with the
\* number of the response it came from
TraceItem(res, n) == [raw |-> TRUE, res |-> res, ev |-> NoEvent, resp |-> n]
EventItem(ev, n) == [raw |-> FALSE, res |-> NoResult, ev |-> ev, resp |-> n]

\* Two items of one search entry response, both well formed
TwoEntries(cookie) ==
    LdapResult(RES_SEARCH_ENTRY,
               <<DataItem("dn", NoAttrs, NoMessage,
                          <<SyncStateControl("present", "U1", cookie)>>),
                 DataItem("dn", NoAttrs, NoMessage,
                          <<SyncStateControl("delete", "U2", None)>>)>>,
               <<>>)

\* The responses the watched server sends
WatchResponses ==
    {EntryResponse("add", "U1", "c1", <<"person">>, None, "a"),
     TwoEntries("c1"),
     IntermediateResponse(SyncInfoMessage("refreshDelete", "c2", TRUE, FALSE, {})),
     IntermediateResponse(SyncInfoMessage("refreshPresent", None, TRUE, FALSE, {})),
     IntermediateResponse(SyncInfoMessage("syncIdSet", "c2", FALSE, TRUE, {"U1"})),
     ResultResponse("c2", FALSE),
     ResultResponse(None, TRUE),
     LdapResult(RES_SEARCH_ENTRY,
                <<DataItem("dn", NoAttrs, NoMessage,
                           <<SyncStateControl("present", "U1", "c2")>>),
                  DataItem("dn", Attrs(<<"person">>, None, "a"), NoMessage, <<>>)>>,
                <<>>)}

WatchScripts == UNION {[1..n -> WatchResponses] : n \in 0..MaxWatch}

\* watch(cookie, persist, trace) called on a database, nothing pulled yet;
\* the destination plays no part
InitWatch ==
    /\ persist \in BOOLEAN
    /\ reqCookie \in {None, "c1"}
    /\ trace \in BOOLEAN
    /\ vendor \in BOOLEAN
    /\ script \in WatchScripts
    /\ out = <<>>
    /\ searches = 0
    /\ pc = "idle"
    /\ nresp = 0
    /\ pending = <<>>
    /\ werr = ""
    /\ wstop = FALSE
    /\ lastOp = Op("Init", NoEvent, {})
    /\ strict = TRUE
    /\ delete = FALSE
    /\ cycle = 0
    /\ rows = {}
    /\ committed = {}
    /\ nextKey = 1
    /\ stateDurable = [k \in StateKeys |-> None]
    /\ stateSession = stateDurable
    /\ stateCache = [k \in StateKeys |-> "unloaded"]
    /\ seen = {}
    /\ held = None
    /\ rowsAtStart = {}
    /\ cookieAtStart = None
    /\ firstRun = {}
    /\ prevEnd = "idle"
    /\ wcookie = NoCookies
    /\ CodecIdle /\ ConcurrentIdle /\ StateIdle

\* The variables the Watcher and its consumer leave alone
quiet == <<strict, delete, cycle, rows, committed, nextKey, stateSession,
           stateDurable, stateCache, seen, held, rowsAtStart, cookieAtStart,
           firstRun, prevEnd, wcookie, tvars, cvars, svars, persist,
           reqCookie, script, trace, vendor>>

\* LdapDatabase._watch_search up to its loop, run by the first pull: the
\* sync request control is built and the search is issued
WatchSearch ==
    /\ pc = "idle"
    /\ pc' = "streaming"
    /\ searches' = searches + 1
    /\ lastOp' = Op("Search", NoEvent, {})
    /\ UNCHANGED <<quiet, out, nresp, pending, werr, wstop>>

\* Mutant of WatchNext: with trace the response is yielded and not processed
WatchNextTraceOnly ==
    /\ pc = "streaming"
    /\ pending = <<>>
    /\ werr = ""
    /\ ~wstop
    /\ nresp < Len(script)
    /\ LET res == script[nresp + 1]
           w == watch(res)
       IN  /\ out' = IF trace THEN Append(out, TraceItem(res, nresp + 1)) ELSE out
           /\ pending' = IF trace THEN <<>> ELSE Yielded(w.events)
           /\ werr' = w.err
           /\ wstop' = w.stop
           /\ lastOp' = Fetched(res)
    /\ nresp' = nresp + 1
    /\ UNCHANGED <<quiet, pc, searches>>

\* The loop of LdapDatabase.watch takes the next response of the search
\* once the events of the previous one are yielded; with trace it yields
\* the response itself first, then the events the response stands for
WatchNext ==
    /\ pc = "streaming"
    /\ pending = <<>>
    /\ werr = ""
    /\ ~wstop
    /\ nresp < Len(script)
    /\ LET res == script[nresp + 1]
           w == watch(res)
       IN  /\ out' = IF trace THEN Append(out, TraceItem(res, nresp + 1)) ELSE out
           /\ pending' = Yielded(w.events)
           /\ werr' = w.err
           /\ wstop' = w.stop
           /\ lastOp' = Fetched(res)
    /\ nresp' = nresp + 1
    /\ UNCHANGED <<quiet, pc, searches>>

\* A yield of an event to the consumer
WatchYield ==
    /\ pc = "streaming"
    /\ pending # <<>>
    /\ out' = Append(out, EventItem(Head(pending), nresp))
    /\ pending' = Tail(pending)
    /\ lastOp' = Op("Yield", Head(pending), {})
    /\ UNCHANGED <<quiet, pc, searches, nresp, werr, wstop>>

\* The exception of the response reaches the consumer
WatchRaise ==
    /\ pc = "streaming"
    /\ pending = <<>>
    /\ werr # ""
    /\ pc' = "aborted"
    /\ lastOp' = Op("Raise", NoEvent, {})
    /\ UNCHANGED <<quiet, out, searches, nresp, pending, werr, wstop>>

\* The break after the search result: the generator returns
WatchReturn ==
    /\ pc = "streaming"
    /\ pending = <<>>
    /\ werr = ""
    /\ wstop
    /\ pc' = "done"
    /\ lastOp' = Op("Return", NoEvent, {})
    /\ UNCHANGED <<quiet, out, searches, nresp, pending, werr, wstop>>

NextWatch ==
    \/ WatchSearch
    \/ WatchNext
    \/ WatchYield
    \/ WatchRaise
    \/ WatchReturn

SpecWatch == InitWatch /\ [][NextWatch]_vars

----------------------------------------------------------------------------
(* The trace codec: LdapResponseControl.to_ldif / from_ldif and            *)
(* LdapResult.write / read.  A text is a sequence of characters; an oid, a *)
(* distinguished name and the words true, false, result: and control: are  *)
(* one character each, bytes are numbers                                   *)

MaxValueLen == 2

Space == " "

\* The alphabet of base64 and its padding character
B64Alphabet ==
    <<"A", "B", "C", "D", "E", "F", "G", "H", "I", "J", "K", "L", "M",
      "N", "O", "P", "Q", "R", "S", "T", "U", "V", "W", "X", "Y", "Z",
      "a", "b", "c", "d", "e", "f", "g", "h", "i", "j", "k", "l", "m",
      "n", "o", "p", "q", "r", "s", "t", "u", "v", "w", "x", "y", "z",
      "0", "1", "2", "3", "4", "5", "6", "7", "8", "9", "+", "/">>

B64Pad == "="

B64Index(c) == (CHOOSE i \in DOMAIN B64Alphabet : B64Alphabet[i] = c) - 1

B64Char(n) == B64Alphabet[n + 1]

\* base64.b64encode: three bytes to four characters, the last group padded
RECURSIVE b64encode(_)
b64encode(bytes) ==
    IF bytes = <<>> THEN <<>>
    ELSE LET n == Len(bytes)
             b1 == bytes[1]
             b2 == IF n >= 2 THEN bytes[2] ELSE 0
             b3 == IF n >= 3 THEN bytes[3] ELSE 0
         IN  <<B64Char(b1 \div 4),
               B64Char((b1 % 4) * 16 + b2 \div 16),
               IF n >= 2 THEN B64Char((b2 % 16) * 4 + b3 \div 64) ELSE B64Pad,
               IF n >= 3 THEN B64Char(b3 % 64) ELSE B64Pad>>
             \o b64encode(SubSeq(bytes, 4, n))

\* The outcome of a decoding: the exception raised, or the value
Raised(err) == [err |-> err, value |-> None]
Returned(value) == [err |-> "", value |-> value]

\* The bytes of an unfinished group of two or three characters at the padding
Leftover(quad) ==
    IF Len(quad) = 2 THEN <<quad[1] * 4 + quad[2] \div 16>>
    ELSE <<quad[1] * 4 + quad[2] \div 16, (quad[2] % 16) * 16 + quad[3] \div 4>>

\* base64.b64decode (not validating): characters outside the alphabet are
\* skipped, four characters give three bytes, padding ends the data, and a
\* group left unfinished raises binascii.Error
RECURSIVE a2b_base64(_, _, _)
a2b_base64(text, quad, pads) ==
    IF text = <<>>
    THEN IF quad = <<>> THEN Returned(<<>>) ELSE Raised("binascii.Error")
    ELSE LET c == Head(text)
         IN  IF c = B64Pad
             THEN IF Len(quad) >= 2 /\ Len(quad) + pads + 1 >= 4
                  THEN Returned(Leftover(quad))
                  ELSE a2b_base64(Tail(text), quad, pads + 1)
             ELSE IF \A i \in DOMAIN B64Alphabet : B64Alphabet[i] # c
             THEN a2b_base64(Tail(text), quad, pads)
             ELSE LET q == Append(quad, B64Index(c))
                  IN  IF Len(q) < 4 THEN a2b_base64(Tail(text), q, 0)
                      ELSE LET rest == a2b_base64(Tail(text), <<>>, 0)
                           IN  IF rest.err # "" THEN rest
                               ELSE Returned(<<q[1] * 4 + q[2] \div 16,
                                               (q[2] % 16) * 16 + q[3] \div 4,
                                               (q[3] % 4) * 64 + q[4]>>
                                             \o rest.value)

b64decode(text) == a2b_base64(text, <<>>, 0)

\* A control as the trace holds it: controlType, criticality and
\* encodedControlValue
ResponseControl(controlType, criticality, encodedControlValue) ==
    [controlType |-> controlType, criticality |-> criticality,
     encodedControlValue |-> encodedControlValue]

\* LdapResponseControl.to_ldif: '%s %s %s'
to_ldif(ctrl) ==
    ctrl.controlType
      \o <<Space, IF ctrl.criticality THEN "true" ELSE "false", Space>>
      \o b64encode(ctrl.encodedControlValue)

\* LdapResponseControl.RE.fullmatch: (\S+)\s+(true|false)\s+(\S+); the
\* groups of the match, if it matches
RE_fullmatch(value) ==
    LET n == Len(value)
        NoSpace(i, j) == \A k \in i..j : value[k] # Space
        AllSpace(i, j) == \A k \in i..j : value[k] = Space
        M == {m \in (1..n) \X (1..n) \X (1..n) :
                \* control is 1..m[1], criticality is at m[2], value is m[3]..n
                /\ NoSpace(1, m[1])
                /\ m[1] + 2 <= m[2] /\ AllSpace(m[1] + 1, m[2] - 1)
                /\ value[m[2]] \in {"true", "false"}
                /\ m[2] + 2 <= m[3] /\ AllSpace(m[2] + 1, m[3] - 1)
                /\ NoSpace(m[3], n)}
    IN  IF M = {}
        THEN [matched |-> FALSE, control |-> <<>>, criticality |-> "",
              value |-> <<>>]
        ELSE LET m == CHOOSE m \in M : TRUE
             IN  [matched |-> TRUE,
                  control |-> SubSeq(value, 1, m[1]),
                  criticality |-> value[m[2]],
                  value |-> SubSeq(value, m[3], n)]

\* LdapResponseControl.CRITICALITY
CRITICALITY(word) == word = "true"

\* LdapResponseControl.from_ldif: the control of the line, built by
\* DecodeControlTuples with the class RESPONSE_CONTROLS gives for the oid
from_ldif(value) ==
    LET m == RE_fullmatch(value)
    IN  IF ~m.matched THEN Raised("LdapInvalidControlError")
        ELSE LET decoded == b64decode(m.value)
             IN  IF decoded.err # "" THEN Raised(decoded.err)
                 ELSE Returned(ResponseControl(m.control,
                                               CRITICALITY(m.criticality),
                                               decoded.value))

\* '%d' of a natural number, and int() of digits
Digits == <<"0", "1", "2", "3", "4", "5", "6", "7", "8", "9">>

RECURSIVE FormatInt(_)
FormatInt(n) ==
    IF n < 10 THEN <<Digits[n + 1]>>
    ELSE Append(FormatInt(n \div 10), Digits[(n % 10) + 1])

IsDigit(c) == \E i \in DOMAIN Digits : Digits[i] = c

RECURSIVE ParseInt(_)
ParseInt(text) ==
    IF text = <<>> THEN 0
    ELSE 10 * ParseInt(SubSeq(text, 1, Len(text) - 1))
         + (CHOOSE i \in DOMAIN Digits : Digits[i] = text[Len(text)]) - 1

\* str.rstrip
RECURSIVE rstrip(_)
rstrip(line) ==
    IF line # <<>> /\ line[Len(line)] = Space
    THEN rstrip(SubSeq(line, 1, Len(line) - 1))
    ELSE line

\* LdapResult.RE.fullmatch: #\s+((result:\s+(\d+))|(control:\s+(.*)))
LdapResult_RE(line) ==
    LET n == Len(line)
        AllSpace(i, j) == \A k \in i..j : line[k] = Space
        K == {k \in 3..n : line[1] = "#" /\ AllSpace(2, k - 1)
                             /\ line[k] \in {"result:", "control:"}}
        NoMatch == [matched |-> FALSE, result |-> <<>>, control |-> <<>>]
    IN  IF K = {} THEN NoMatch
        ELSE LET k == CHOOSE k \in K : TRUE
                 R == {r \in (k + 2)..n : AllSpace(k + 1, r - 1) /\ line[r] # Space}
             IN  IF R = {} THEN NoMatch
                 ELSE LET r == CHOOSE r \in R : TRUE
                      IN  IF line[k] = "control:"
                          THEN [matched |-> TRUE, result |-> <<>>,
                                control |-> SubSeq(line, r, n)]
                          ELSE IF \A i \in r..n : IsDigit(line[i])
                          THEN [matched |-> TRUE, result |-> SubSeq(line, r, n),
                                control |-> <<>>]
                          ELSE NoMatch

\* The result types of python-ldap that LdapResult.write tells apart
RES_CODE_SEARCH_ENTRY == 100
RES_CODE_SEARCH_RESULT == 101
RES_CODE_INTERMEDIATE == 121

\* One item of LdapResult.data as the trace holds it: the name (dn, or the
\* response name), the attributes (or the value of the intermediate
\* response) and the controls
DataTuple(dn, attrs, ctrls) == [dn |-> dn, attrs |-> attrs, ctrls |-> ctrls]

\* The attrs of an item of an intermediate response: the encoded value
Encoded(bytes) == [encoded |-> bytes]

\* ldif.LDIFWriter.unparse / ldif.LDIFRecordList: a record of the file holds
\* the dn and the values of the attributes that have values
unparse(dn, record) ==
    [dn |-> dn,
     entry |-> [a \in {x \in DOMAIN record : record[x] # <<>>} |-> record[a]]]

\* record.setdefault('control', []) and record['control'].append(...) for
\* each of the texts
with_controls(record, texts) ==
    IF texts = <<>> THEN record
    ELSE [a \in DOMAIN record \cup {"control"} |->
             IF a = "control"
             THEN (IF "control" \in DOMAIN record THEN record["control"] ELSE <<>>)
                  \o texts
             ELSE record[a]]

\* LdapResult.write: the header comments, then one LDIF record per item
write(res) ==
    [header |->
        <<<<"#", Space, "result:", Space>> \o FormatInt(res.type)>>
        \o [i \in DOMAIN res.ctrls |->
               <<"#", Space, "control:", Space>> \o to_ldif(res.ctrls[i])]
        \o << <<"#">> >>,
     records |->
        [i \in DOMAIN res.data |->
            LET item == res.data[i]
                texts == [j \in DOMAIN item.ctrls |-> to_ldif(item.ctrls[j])]
            IN  IF res.type = RES_CODE_INTERMEDIATE
                THEN unparse(<<>>,
                             with_controls(
                                 [control |-> <<to_ldif(ResponseControl(
                                                   item.dn, FALSE, item.attrs.encoded))>>],
                                 texts))
                ELSE unparse(item.dn, with_controls(item.attrs, texts))]]

\* The header loop of LdapResult.read: the type and the controls of the
\* lines up to the first line that is no header comment
RECURSIVE read_header(_, _, _)
read_header(lines, type, ctrls) ==
    IF lines = <<>> THEN [err |-> "", type |-> type, ctrls |-> ctrls]
    ELSE LET m == LdapResult_RE(rstrip(Head(lines)))
         IN  IF ~m.matched THEN [err |-> "", type |-> type, ctrls |-> ctrls]
             ELSE IF m.result # <<>>
             THEN read_header(Tail(lines), ParseInt(m.result), ctrls)
             ELSE LET ctrl == from_ldif(m.control)
                  IN  IF ctrl.err # ""
                      THEN [err |-> ctrl.err, type |-> type, ctrls |-> ctrls]
                      ELSE read_header(Tail(lines), type, Append(ctrls, ctrl.value))

\* The controls of the texts of a record, up to the first that raises
RECURSIVE read_controls(_)
read_controls(texts) ==
    IF texts = <<>> THEN Returned(<<>>)
    ELSE LET ctrl == from_ldif(Head(texts))
             rest == read_controls(Tail(texts))
         IN  IF ctrl.err # "" THEN Raised(ctrl.err)
             ELSE IF rest.err # "" THEN rest
             ELSE Returned(<<ctrl.value>> \o rest.value)

\* The loop over the records of LdapResult.read
RECURSIVE read_records(_, _)
read_records(records, type) ==
    IF records = <<>> THEN Returned(<<>>)
    ELSE LET rec == Head(records)
             texts == IF "control" \in DOMAIN rec.entry
                      THEN rec.entry["control"] ELSE <<>>
             entry == [a \in DOMAIN rec.entry \ {"control"} |-> rec.entry[a]]
             ctrls == read_controls(texts)
             rest == read_records(Tail(records), type)
         IN  IF ctrls.err # "" THEN ctrls
             ELSE IF type = RES_CODE_INTERMEDIATE /\ ctrls.value = <<>>
             THEN Raised("IndexError")
             ELSE IF rest.err # "" THEN rest
             ELSE IF type = RES_CODE_INTERMEDIATE
             THEN Returned(<<DataTuple(Head(ctrls.value).controlType,
                                       Encoded(Head(ctrls.value).encodedControlValue),
                                       Tail(ctrls.value))>> \o rest.value)
             ELSE Returned(<<DataTuple(rec.dn, entry, ctrls.value)>> \o rest.value)

\* LdapResult.read
read(file) ==
    LET head == read_header(file.header, None, <<>>)
        data == read_records(file.records, head.type)
    IN  IF head.err # "" THEN Raised(head.err)
        ELSE IF data.err # "" THEN Raised(data.err)
        ELSE Returned(LdapResult(head.type, data.value, head.ctrls))

\* The encoded values, the controls and the responses given to the codec
ByteValues == {0, 77, 255}

EncodedValues == UNION {[1..n -> ByteValues] : n \in 0..MaxValueLen}

Oids == {"1.3.6.1.4.1.4203.1.9.1.2", "1.3.6.1.4.1.4203.1.9.1.3"}

Controls ==
    {ResponseControl(<<oid>>, criticality, value) :
        oid \in Oids, criticality \in BOOLEAN, value \in EncodedValues}

ControlLists ==
    {<<>>}
    \cup {<<ResponseControl(<<"1.3.6.1.4.1.4203.1.9.1.2">>, FALSE, value)>> :
             value \in {<<>>, <<77>>, <<0, 255>>}}
    \cup {<<ResponseControl(<<"1.3.6.1.4.1.4203.1.9.1.2">>, TRUE, <<255>>),
            ResponseControl(<<"1.3.6.1.4.1.4203.1.9.1.3">>, FALSE, <<77, 0>>)>>}

Results ==
    {LdapResult(RES_CODE_SEARCH_ENTRY,
                <<DataTuple(<<"cn=a">>, [cn |-> << <<"a">> >>], ctrls)>>, <<>>) :
        ctrls \in ControlLists}
    \cup {LdapResult(RES_CODE_SEARCH_ENTRY,
                     <<DataTuple(<<"cn=a">>, [cn |-> << <<"a">> >>], ctrls),
                       DataTuple(<<"cn=b">>,
                                 [cn |-> << <<"b">> >>,
                                  objectClass |-> << <<"top">>, <<"person">> >>],
                                 <<>>)>>,
                     <<>>) :
        ctrls \in ControlLists}
    \cup {LdapResult(RES_CODE_INTERMEDIATE,
                     <<DataTuple(<<SyncInfoName>>, Encoded(value), ctrls)>>, <<>>) :
        value \in {<<77>>, <<255, 0>>}, ctrls \in ControlLists}
    \cup {LdapResult(RES_CODE_SEARCH_RESULT, <<>>, ctrls) : ctrls \in ControlLists}

\* Lines of a trace file that are no control
OtherLines ==
    { <<>>,
      <<"1.1">>,
      <<"1.1", Space, "true">>,
      <<"1.1", Space, "maybe", Space, "T", "Q", "=", "=">>,
      <<Space, "1.1", Space, "true", Space, "T", "Q", "=", "=">>,
      <<"1.1", Space, "true", Space, "T", "Q", "=", "=", Space>>,
      <<"1.1", Space, "true", Space, "T", "Q", "=", "=", Space, "x">>,
      <<"1.1", Space, "true", Space, "T", "Q">>,
      <<"1.1", Space, "true", Space, "!">> }

\* What the codec is given: a control, a response, or a line of a file
Given(kind, ctrl, res) == [kind |-> kind, ctrl |-> ctrl, res |-> res]

\* A control or a response to write, or a line to read; no Watcher, no
\* destination
InitCodec ==
    /\ \/ /\ traceIn \in {Given("control", c, None) : c \in Controls}
                           \cup {Given("result", None, r) : r \in Results}
          /\ traceText = <<>>
          /\ pc = "idle"
       \/ /\ traceIn = Given("line", None, None)
          /\ traceText \in OtherLines
          /\ pc = "written"
    /\ traceOut = None
    /\ persist = FALSE
    /\ reqCookie = None
    /\ script = <<>>
    /\ nresp = 0
    /\ pending = <<>>
    /\ werr = ""
    /\ wstop = FALSE
    /\ lastOp = Op("Init", NoEvent, {})
    /\ strict = TRUE
    /\ delete = FALSE
    /\ cycle = 0
    /\ rows = {}
    /\ committed = {}
    /\ nextKey = 1
    /\ stateDurable = [k \in StateKeys |-> None]
    /\ stateSession = stateDurable
    /\ stateCache = [k \in StateKeys |-> "unloaded"]
    /\ seen = {}
    /\ held = None
    /\ rowsAtStart = {}
    /\ cookieAtStart = None
    /\ firstRun = {}
    /\ prevEnd = "idle"
    /\ wcookie = NoCookies
    /\ WatchIdle /\ ConcurrentIdle /\ StateIdle

\* The variables the codec leaves alone
aside == <<persist, strict, delete, cycle, rows, committed, nextKey,
           stateSession, stateDurable, stateCache, reqCookie, seen, held,
           nresp, pending, werr, wstop, script, rowsAtStart, cookieAtStart,
           firstRun, prevEnd, wcookie, lastOp, wvars, cvars, svars,
           traceIn>>

\* str(ctrl): the control is written as a line
ControlToLdif ==
    /\ pc = "idle"
    /\ traceIn.kind = "control"
    /\ traceText' = to_ldif(traceIn.ctrl)
    /\ pc' = "written"
    /\ UNCHANGED <<aside, traceOut>>

\* LdapResponseControl.from_ldif on the line
ControlFromLdif ==
    /\ pc = "written"
    /\ traceIn.kind \in {"control", "line"}
    /\ traceOut' = from_ldif(traceText)
    /\ pc' = "read"
    /\ UNCHANGED <<aside, traceText>>

\* LdapResult.write(fh)
ResultWrite ==
    /\ pc = "idle"
    /\ traceIn.kind = "result"
    /\ traceText' = write(traceIn.res)
    /\ pc' = "written"
    /\ UNCHANGED <<aside, traceOut>>

\* LdapResult.read(fh)
ResultRead ==
    /\ pc = "written"
    /\ traceIn.kind = "result"
    /\ traceOut' = read(traceText)
    /\ pc' = "read"
    /\ UNCHANGED <<aside, traceText>>

NextCodec ==
    \/ ControlToLdif
    \/ ControlFromLdif
    \/ ResultWrite
    \/ ResultRead

SpecCodec == InitCodec /\ [][NextCodec]_vars

----------------------------------------------------------------------------
(* Two synchronization runs on one destination: each run has its own       *)
(* SqlDatabase (session, SqlState cache); the tables are shared.  A        *)
(* session sees the committed rows and its own uncommitted ones            *)

Runs == {1, 2}

\* The responses of the two runs: identifiers U1 and U2, cookies c1 and c2,
\* no sweep (the search result has refreshDeletes)
RunScript(r) ==
    IF r = 1
    THEN <<EntryResponse("add", "U1", "c1", <<"person">>, None, "a"),
           ResultResponse(None, TRUE)>>
    ELSE <<EntryResponse("modify", "U2", None, <<"person">>, None, "b"),
           ResultResponse("c2", TRUE)>>

\* The events LdapDatabase.watch derives from a script
RECURSIVE ScriptEvents(_)
ScriptEvents(responses) ==
    IF responses = <<>> THEN <<>>
    ELSE watch(Head(responses)).events \o ScriptEvents(Tail(responses))

\* A row of the state table: its native key, the key column, the value
StateRow(id, key, value) == [id |-> id, key |-> key, value |-> value]

\* The state table as SqlState.query(key).one_or_none() gives it
StateView(tbl) ==
    [k \in StateKeys |->
        IF \A row \in tbl : row.key # k THEN None
        ELSE (CHOOSE row \in tbl : row.key = k).value]

\* The rows a session sees: the committed rows it has not changed, and the
\* rows it has added or changed
SessionRows(r) ==
    {row \in store.rows : \A d \in sessions[r].dirty : d.key # row.key}
        \cup sessions[r].dirty

\* On ChangedEntry(e) under strict matching: update-if-present,
\* create-if-absent; the rows and the next native key after it
changed_strict(tbl, key, e) ==
    LET found == find_syncid(tbl, e.kind, e.syncid)
    IN  IF found # NoRow
        THEN [rows |-> set_row(tbl, found, found.syncid, e.name), nextKey |-> key]
        ELSE [rows |-> set_row(create(tbl, e.kind, key),
                               Row(key, e.kind, None, None), e.syncid, e.name),
              nextKey |-> key + 1]

\* Destinations the two runs may start from
ConcurrentDestinations ==
    { {},
      {Row(1, "User", "U1", "x")},
      {Row(1, "User", "U2", "b"), Row(2, "Group", "U1", "g")} }

\* Two runs not yet started; the state table has no row or one row for the
\* cookie, and a unique key column or not (its ORM class is the plugin's)
InitConcurrent ==
    /\ store \in {[rows |-> tbl, nextKey |-> Cardinality(tbl) + 1,
                   state |-> st, nextId |-> Cardinality(st) + 1,
                   unique |-> u, initial |-> tbl] :
                     tbl \in ConcurrentDestinations,
                     st \in {{}, {StateRow(1, "cookie", "c0")}},
                     u \in BOOLEAN}
    /\ sessions = [r \in Runs |->
                     [pc |-> "idle", todo |-> ScriptEvents(RunScript(r)),
                      dirty |-> {}, held |-> None,
                      cache |-> [k \in StateKeys |-> "unloaded"]]]
    /\ persist = TRUE
    /\ strict = TRUE
    /\ delete = FALSE
    /\ pc = "idle"
    /\ reqCookie = None
    /\ script = <<>>
    /\ nresp = 0
    /\ pending = <<>>
    /\ werr = ""
    /\ wstop = FALSE
    /\ lastOp = Op("Init", NoEvent, {})
    /\ cycle = 0
    /\ rows = {}
    /\ committed = {}
    /\ nextKey = 1
    /\ stateDurable = [k \in StateKeys |-> None]
    /\ stateSession = stateDurable
    /\ stateCache = [k \in StateKeys |-> "unloaded"]
    /\ seen = {}
    /\ held = None
    /\ rowsAtStart = {}
    /\ cookieAtStart = None
    /\ firstRun = {}
    /\ prevEnd = "idle"
    /\ wcookie = NoCookies
    /\ WatchIdle /\ CodecIdle /\ StateIdle

\* The variables the two runs leave alone
single == <<persist, strict, delete, pc, cycle, rows, committed, nextKey,
            stateSession, stateDurable, stateCache, reqCookie, seen, held,
            nresp, pending, werr, wstop, script, rowsAtStart, cookieAtStart,
            firstRun, prevEnd, wcookie, lastOp, wvars, tvars, svars>>

\* A run starts: the stored cookie is read through SqlState.__getitem__,
\* which keeps the row it found (or None) in SqlState.rows
RunStart ==
    \E r \in Runs :
        /\ sessions[r].pc = "idle"
        /\ LET got == state_getitem(sessions[r].cache, StateView(store.state),
                                    "cookie")
           IN  sessions' = [sessions EXCEPT ![r].pc = "streaming",
                                            ![r].cache = got.cache]
        /\ UNCHANGED <<single, store>>

\* A run handles a ChangedEntry; a new row takes the next native key
RunChangedEntry ==
    \E r \in Runs :
        /\ sessions[r].pc = "streaming"
        /\ sessions[r].todo # <<>>
        /\ Head(sessions[r].todo).type = "ChangedEntry"
        /\ strict
        /\ LET done == changed_strict(SessionRows(r), store.nextKey,
                                      Head(sessions[r].todo))
           IN  /\ sessions' = [sessions EXCEPT
                                  ![r].todo = Tail(sessions[r].todo),
                                  ![r].dirty = done.rows \ store.rows]
               /\ store' = [store EXCEPT !.nextKey = done.nextKey]
        /\ UNCHANGED single

\* A run holds the cookie of a SyncCookie
RunSyncCookie ==
    \E r \in Runs :
        /\ sessions[r].pc = "streaming"
        /\ sessions[r].todo # <<>>
        /\ Head(sessions[r].todo).type = "SyncCookie"
        /\ sessions' = [sessions EXCEPT ![r].todo = Tail(sessions[r].todo),
                                        ![r].held = Head(sessions[r].todo).cookie]
        /\ UNCHANGED <<single, store>>

\* A run handles a RefreshComplete that asks for no sweep
RunRefreshComplete ==
    \E r \in Runs :
        /\ sessions[r].pc = "streaming"
        /\ sessions[r].todo # <<>>
        /\ Head(sessions[r].todo).type = "RefreshComplete"
        /\ ~(Head(sessions[r].todo).autodelete /\ delete)
        /\ sessions' = [sessions EXCEPT ![r].todo = Tail(sessions[r].todo)]
        /\ UNCHANGED <<single, store>>

\* SqlDatabase.commit at the end of the run's stream
RunCommit ==
    \E r \in Runs :
        /\ sessions[r].pc = "streaming"
        /\ sessions[r].todo = <<>>
        /\ persist
        /\ store' = [store EXCEPT !.rows = SessionRows(r)]
        /\ sessions' = [sessions EXCEPT ![r].pc = "cookie", ![r].dirty = {}]
        /\ UNCHANGED single

\* The held cookie is written through SqlState.__setitem__ and committed:
\* the row kept in SqlState.rows is updated; when None was kept, a new row
\* is added, which a unique key column refuses if the key is there
RunWriteCookie ==
    \E r \in Runs :
        /\ sessions[r].pc = "cookie"
        /\ LET kept == sessions[r].cache["cookie"]
               put == state_setitem(sessions[r].cache, StateView(store.state),
                                    "cookie", sessions[r].held)
               there == {row \in store.state : row.key = "cookie"}
           IN  IF sessions[r].held = None
               THEN /\ sessions' = [sessions EXCEPT ![r].pc = "done"]
                    /\ store' = store
               ELSE IF kept = "none" /\ store.unique /\ there # {}
               THEN /\ sessions' = [sessions EXCEPT ![r].pc = "failed"]
                    /\ store' = store
               ELSE /\ sessions' = [sessions EXCEPT ![r].pc = "done",
                                                    ![r].cache = put.cache]
                    /\ store' =
                         IF kept = "none"
                         THEN [store EXCEPT
                                 !.state = store.state \cup
                                     {StateRow(store.nextId, "cookie",
                                               put.tbl["cookie"])},
                                 !.nextId = store.nextId + 1]
                         ELSE [store EXCEPT
                                 !.state = {IF row.key = "cookie"
                                            THEN StateRow(row.id, row.key,
                                                          put.tbl["cookie"])
                                            ELSE row : row \in store.state}]
        /\ UNCHANGED single

NextConcurrent ==
    \/ RunStart
    \/ RunChangedEntry
    \/ RunSyncCookie
    \/ RunRefreshComplete
    \/ RunCommit
    \/ RunWriteCookie

SpecConcurrent == InitConcurrent /\ [][NextConcurrent]_vars

----------------------------------------------------------------------------
(* The state store: get, set and delete on one SqlState over one session   *)

\* Keys and values of the state table
StoreKeys == {"cookie", "serial"}
StoreValues == {"c1", "c2"}

\* The state store: SqlState.rows (cache), the state table as the session's
\* queries see it (tbl: a key maps to its value, None without a row) and
\* the keys whose row was added to the session and not flushed yet
Store(cache, tbl, unflushed) ==
    [cache |-> cache, tbl |-> tbl, unflushed |-> unflushed]

\* What an operation of the state store did: the value returned, the error
\* raised ("": none), and, since the store was opened, the value last set
\* and not deleted since by a delete that returned, for each key (expect;
\* at first the value stored), the keys whose last
\* operation was a lookup that found nothing (missed), and whether this
\* operation's key was one of them (afterMiss)
Done(op, key, value, err, expect, missed, afterMiss) ==
    [op |-> op, key |-> key, value |-> value, err |-> err,
     expect |-> expect, missed |-> missed, afterMiss |-> afterMiss]

\* A state store just constructed on a state table with any rows: nothing
\* cached, nothing to flush; no Watcher, no destination, no codec
InitState ==
    /\ \E tbl \in [StoreKeys -> StoreValues \cup {None}] :
          /\ kvstore = Store([k \in StoreKeys |-> "unloaded"], tbl, {})
          /\ kvlog = Done("Init", None, None, "", tbl, {}, FALSE)
    /\ pc = "idle"
    /\ persist = FALSE
    /\ reqCookie = None
    /\ script = <<>>
    /\ nresp = 0
    /\ pending = <<>>
    /\ werr = ""
    /\ wstop = FALSE
    /\ lastOp = Op("Init", NoEvent, {})
    /\ strict = TRUE
    /\ delete = FALSE
    /\ cycle = 0
    /\ rows = {}
    /\ committed = {}
    /\ nextKey = 1
    /\ stateDurable = [k \in StateKeys |-> None]
    /\ stateSession = stateDurable
    /\ stateCache = [k \in StateKeys |-> "unloaded"]
    /\ seen = {}
    /\ held = None
    /\ rowsAtStart = {}
    /\ cookieAtStart = None
    /\ firstRun = {}
    /\ prevEnd = "idle"
    /\ wcookie = NoCookies
    /\ WatchIdle /\ CodecIdle /\ ConcurrentIdle

\* What the state store's operations leave alone
apart == <<persist, strict, delete, pc, cycle, rows, committed, nextKey,
           stateSession, stateDurable, stateCache, reqCookie, seen, held,
           nresp, pending, werr, wstop, script, rowsAtStart, cookieAtStart,
           firstRun, prevEnd, wcookie, lastOp, wvars, tvars, cvars>>

\* SqlState.query(key).one_or_none() runs only when the key is not cached;
\* the session flushes before a query (autoflush)
autoflush(cache, unflushed, key) ==
    IF cache[key] = "unloaded" THEN {} ELSE unflushed

\* SqlState.__delitem__: a cached row is deleted through the session and
\* then dropped from the cache; Session.delete raises for None (not a
\* mapped instance) and for a row added and not flushed (not persisted),
\* before the cache is touched. Without a cached row the query deletes the
\* key's rows in the database, after the session's flush.
state_delitem(cache, tbl, unflushed, key) ==
    IF cache[key] = "unloaded"
    THEN [tbl |-> [tbl EXCEPT ![key] = None], cache |-> cache,
          unflushed |-> {}, err |-> ""]
    ELSE IF cache[key] = "none"
    THEN [tbl |-> tbl, cache |-> cache, unflushed |-> unflushed,
          err |-> "UnmappedInstanceError"]
    ELSE IF key \in unflushed
    THEN [tbl |-> tbl, cache |-> cache, unflushed |-> unflushed,
          err |-> "InvalidRequestError"]
    ELSE [tbl |-> [tbl EXCEPT ![key] = None],
          cache |-> [cache EXCEPT ![key] = "unloaded"],
          unflushed |-> unflushed, err |-> ""]

\* state[key]
StateGet ==
    \E key \in StoreKeys :
        LET got == state_getitem(kvstore.cache, kvstore.tbl, key)
            miss == got.value = None
        IN  /\ kvstore' = Store(got.cache, kvstore.tbl,
                                autoflush(kvstore.cache, kvstore.unflushed, key))
            /\ kvlog' = Done("get", key, got.value,
                             IF miss THEN "KeyError" ELSE "",
                             kvlog.expect,
                             IF miss THEN kvlog.missed \cup {key}
                             ELSE kvlog.missed \ {key},
                             FALSE)
            /\ UNCHANGED apart

\* state[key] = value: a row created by the call is added to the session
\* and waits for the next flush
StateSet ==
    \E key \in StoreKeys, value \in StoreValues :
        LET put == state_setitem(kvstore.cache, kvstore.tbl, key, value)
            created == \/ kvstore.cache[key] = "none"
                       \/ /\ kvstore.cache[key] = "unloaded"
                          /\ kvstore.tbl[key] = None
            flushed == autoflush(kvstore.cache, kvstore.unflushed, key)
        IN  /\ kvstore' = Store(put.cache, put.tbl,
                                IF created THEN flushed \cup {key} ELSE flushed)
            /\ kvlog' = Done("set", key, None, "",
                             [kvlog.expect EXCEPT ![key] = value],
                             kvlog.missed \ {key}, FALSE)
            /\ UNCHANGED apart

\* del state[key]
StateDelete ==
    \E key \in StoreKeys :
        LET gone == state_delitem(kvstore.cache, kvstore.tbl,
                                  kvstore.unflushed, key)
        IN  /\ kvstore' = Store(gone.cache, gone.tbl, gone.unflushed)
            /\ kvlog' = Done("delete", key, None, gone.err,
                             IF gone.err = ""
                             THEN [kvlog.expect EXCEPT ![key] = None]
                             ELSE kvlog.expect,
                             kvlog.missed \ {key}, key \in kvlog.missed)
            /\ UNCHANGED apart

\* SqlDatabase.commit: the session flushes and commits
StateCommit ==
    /\ kvstore' = Store(kvstore.cache, kvstore.tbl, {})
    /\ kvlog' = Done("commit", None, None, "", kvlog.expect, kvlog.missed,
                     FALSE)
    /\ UNCHANGED apart

NextState ==
    \/ StateGet
    \/ StateSet
    \/ StateDelete
    \/ StateCommit

SpecState == InitState /\ [][NextState]_vars

----------------------------------------------------------------------------
(* Lookups by permanent identifier on any destination table                *)

MaxRows == 3

\* The destinations a lookup may meet: up to MaxRows rows of either table,
\* each with an identifier or none
LookupDestinations ==
    LET candidates == {Row(key, kind, syncid, "a") :
                          key \in 1..MaxRows, kind \in Kinds,
                          syncid \in SyncIds \cup {None}}
    IN  {tbl \in SUBSET candidates :
            \A r, q \in tbl : r.key = q.key => r = q}

\* A lookup with and without invert: the table, the identifiers and the rows
\* each call returned
Looked(kind, ids, within, without, before) ==
    [op |-> "find_syncids", kind |-> kind, ids |-> ids, within |-> within,
     without |-> without, before |-> before]

\* A sweep: the rows it selected and the table before it
Swept(found, before) == [op |-> "sweep", found |-> found, before |-> before]

\* Any destination, any set of identifiers seen; no Watcher, no state store
InitLookup ==
    /\ rows \in LookupDestinations
    /\ seen \in SUBSET SyncIds
    /\ committed = rows
    /\ nextKey = MaxRows + 1
    /\ lastOp = Op("Init", NoEvent, {})
    /\ pc = "idle"
    /\ persist = FALSE
    /\ strict = TRUE
    /\ delete = TRUE
    /\ cycle = 0
    /\ reqCookie = None
    /\ script = <<>>
    /\ nresp = 0
    /\ pending = <<>>
    /\ werr = ""
    /\ wstop = FALSE
    /\ stateDurable = [k \in StateKeys |-> None]
    /\ stateSession = stateDurable
    /\ stateCache = [k \in StateKeys |-> "unloaded"]
    /\ held = None
    /\ rowsAtStart = rows
    /\ cookieAtStart = None
    /\ firstRun = {}
    /\ prevEnd = "idle"
    /\ wcookie = NoCookies
    /\ WatchIdle /\ CodecIdle /\ ConcurrentIdle /\ StateIdle

\* What a lookup leaves alone
looked == <<persist, strict, delete, pc, cycle, committed, nextKey,
            stateSession, stateDurable, stateCache, reqCookie, seen, held,
            nresp, pending, werr, wstop, script, rowsAtStart, cookieAtStart,
            firstRun, prevEnd, wcookie, wvars, tvars, cvars, svars>>

\* Entry.find_syncids(ids) and Entry.find_syncids(ids, invert=True) on one
\* table
LookupBoth ==
    \E kind \in Kinds, ids \in SUBSET SyncIds :
        /\ lastOp' = Looked(kind, ids, find_syncids(rows, kind, ids, FALSE),
                            find_syncids(rows, kind, ids, TRUE), rows)
        /\ UNCHANGED <<rows, looked>>

\* The autodelete sweep: for dst in find_syncids(seen, invert=True):
\* dst.delete(), on both tables
LookupSweep ==
    /\ lastOp' = Swept(all_syncids(rows, seen, TRUE), rows)
    /\ rows' = delete_rows(rows, all_syncids(rows, seen, TRUE))
    /\ UNCHANGED looked

NextLookup ==
    \/ LookupBoth
    \/ LookupSweep

SpecLookup == InitLookup /\ [][NextLookup]_vars

----------------------------------------------------------------------------
(* Properties                                                              *)

\* What a table holds, native keys apart: each (table, syncid, name) with
\* the number of rows that carry it
Content(tbl) ==
    {<<r.kind, r.syncid, r.name,
       Cardinality({q \in tbl : q.kind = r.kind /\ q.syncid = r.syncid
                                               /\ q.name = r.name})>> : r \in tbl}

\* At most one row of a table carries a given permanent identifier
NoDuplicate(tbl) ==
    \A r, q \in tbl :
        (r.kind = q.kind /\ r.syncid # None /\ r.syncid = q.syncid) => r = q

\* The native keys of a table's rows
Keys(tbl) == {r.key : r \in tbl}

\* C1: every step that changes the cookie of the State Store (in the session
\* or durably) is taken after this cycle's commit, when no destination
\* mutation is left uncommitted, and stores the held cookie.
C1_CommitThenCookie ==
    [][(stateSession' # stateSession \/ stateDurable' # stateDurable)
          => /\ pc = "cookie"
             /\ lastOp.op = "Complete"
             /\ committed = rows
             /\ stateDurable'["cookie"] = held]_vars

C1_Witness ==
    /\ pc = "done"
    /\ lastOp.op = "WriteCookie"
    /\ stateDurable["cookie"] = held
    /\ held # cookieAtStart
    /\ committed # rowsAtStart

\* C2: after a cycle aborted on a fatal Watcher error, the cookie of the State
\* Store is the cookie stored before the cycle started, whatever SyncCookie
\* events were received before the failing response.
C2_AbortKeepsCookie ==
    (pc = "aborted")
        => /\ stateDurable["cookie"] = cookieAtStart
           /\ stateSession["cookie"] = cookieAtStart

C2_Witness ==
    /\ pc = "aborted"
    /\ werr = "LdapProtocolError"
    /\ cookieAtStart # None
    /\ held \notin {None, cookieAtStart}
    /\ stateDurable["cookie"] = cookieAtStart

C4_LastCookieStored ==
    (pc = "done" /\ persist /\ wcookie.last # None)
        => /\ stateDurable["cookie"] = wcookie.last
           /\ stateSession["cookie"] = wcookie.last

C4_Witness ==
    /\ pc = "done"
    /\ persist
    /\ wcookie.alone
    /\ wcookie.prev \notin {None, wcookie.last}
    /\ stateDurable["cookie"] = wcookie.last

C6_NoDeleteKeepsRows ==
    ~delete
        => /\ Keys(rowsAtStart) \subseteq Keys(rows)
           /\ Keys(rowsAtStart) \subseteq Keys(committed)

C6_Witness ==
    /\ ~delete
    /\ lastOp.op = "RefreshComplete"
    /\ lastOp.ev.autodelete
    /\ \E r \in rows : r \in rowsAtStart /\ r.syncid # None /\ r.syncid \notin seen

\* C7: with delete enabled, RefreshComplete(autodelete=true) removes exactly
\* the rows whose permanent identifier is not in seen (rows without one
\* stay), and RefreshComplete(autodelete=false) removes no row.
C7_SweepExact ==
    (lastOp.op = "RefreshComplete" /\ delete)
        => rows = IF lastOp.ev.autodelete
                  THEN {r \in lastOp.before : r.syncid = None \/ r.syncid \in seen}
                  ELSE lastOp.before

C7_Witness ==
    /\ lastOp.op = "RefreshComplete"
    /\ delete
    /\ lastOp.ev.autodelete
    /\ rows # lastOp.before
    /\ \E r \in rows : r.syncid # None

\* C8: with delete enabled, DeletedSyncIds(ids) removes exactly the rows
\* whose permanent identifier is in ids; an identifier without a row changes
\* nothing and raises nothing.
C8_DeleteExact ==
    (lastOp.op = "DeletedSyncIds" /\ delete)
        => /\ rows = {r \in lastOp.before : r.syncid \notin lastOp.ev.ids}
           /\ pc = "streaming"

C8_Witness ==
    /\ lastOp.op = "DeletedSyncIds"
    /\ delete
    /\ rows # {}
    /\ rows # lastOp.before
    /\ \E id \in lastOp.ev.ids : \A r \in lastOp.before : r.syncid # id

\* C9: under strict mode, in every state of every cycle, at most one row of
\* a table carries a given permanent identifier.
C9_StrictNoDuplicate ==
    strict => NoDuplicate(rows) /\ NoDuplicate(committed)

C9_Witness ==
    /\ strict
    /\ cycle = 2
    /\ lastOp.op = "ChangedEntry"
    /\ \E r \in lastOp.before : r.kind = lastOp.ev.kind /\ r.syncid = lastOp.ev.syncid
    /\ \E r \in rowsAtStart : r.kind = lastOp.ev.kind /\ r.syncid = lastOp.ev.syncid
    /\ Cardinality(rows) = Cardinality(lastOp.before)

RowsOf(tbl, e) == {r \in tbl : r.kind = e.kind /\ r.syncid = e.syncid}

\* The rows of tbl in e's table without permanent identifier, named as e
UnmatchedOf(tbl, e) ==
    {r \in tbl : r.kind = e.kind /\ r.syncid = None /\ r.name = e.name}

\* tbl with exactly one more row, of a new native key, that carries e's
\* table, permanent identifier and name
CreatedFor(tbl, before, e) ==
    \E k \in Keys(tbl) \ Keys(before) :
        tbl = before \cup {Row(k, e.kind, e.syncid, e.name)}

\* C11: under strict mode a ChangedEntry(e) updates the row that carries e's
\* permanent identifier and creates none; when no row carries it, exactly one
\* row keyed by e's identifier is created, also when a row without
\* identifier has e's name.  Either way e's identifier is in seen.
C11_StrictChangedEntry ==
    (strict /\ lastOp.op = "ChangedEntry")
        => LET e == lastOp.ev
               before == lastOp.before
               found == RowsOf(before, e)
           IN  /\ pc = "streaming"
               /\ e.syncid \in seen
               /\ IF found # {}
                  THEN /\ Cardinality(found) = 1
                       /\ rows = (before \ found)
                                   \cup {Row(r.key, r.kind, r.syncid, e.name) : r \in found}
                  ELSE CreatedFor(rows, before, e)

C11_Witness ==
    /\ strict
    /\ lastOp.op = "ChangedEntry"
    /\ RowsOf(lastOp.before, lastOp.ev) = {}
    /\ UnmatchedOf(lastOp.before, lastOp.ev) # {}
    /\ UnmatchedOf(rows, lastOp.ev) = UnmatchedOf(lastOp.before, lastOp.ev)
    /\ Cardinality(rows) = Cardinality(lastOp.before) + 1
    /\ lastOp.ev.syncid \in seen

\* C12: under guess mode, when no row carries e's permanent identifier, a
\* ChangedEntry(e) gives e's identifier to the row without identifier that
\* has e's name and creates no row; a row is created only when there is no
\* such row.
C12_GuessMatchesUnmatched ==
    (~strict /\ lastOp.op = "ChangedEntry" /\ RowsOf(lastOp.before, lastOp.ev) = {})
        => LET e == lastOp.ev
               before == lastOp.before
               unmatched == UnmatchedOf(before, e)
           IN  /\ pc = "streaming"
               /\ IF unmatched # {}
                  THEN \E u \in unmatched :
                          rows = (before \ {u})
                                     \cup {Row(u.key, u.kind, e.syncid, e.name)}
                  ELSE CreatedFor(rows, before, e)

C12_Witness ==
    /\ ~strict
    /\ lastOp.op = "ChangedEntry"
    /\ RowsOf(lastOp.before, lastOp.ev) = {}
    /\ UnmatchedOf(lastOp.before, lastOp.ev) # {}
    /\ Keys(rows) = Keys(lastOp.before)
    /\ RowsOf(rows, lastOp.ev) # {}

\* C13: an UnchangedSyncIds(ids) event adds ids to seen and changes no
\* destination row, in the session or durably: nothing is created, updated
\* or deleted, whether or not rows carry these identifiers.
C13_UnchangedNoMutation ==
    [][(pc = "streaming" /\ pending # <<>>
           /\ Head(pending).type = "UnchangedSyncIds")
          => /\ seen' = seen \cup Head(pending).ids
             /\ rows' = rows
             /\ committed' = committed
             /\ nextKey' = nextKey
             /\ pc' = "streaming"]_vars

C13_Witness ==
    /\ lastOp.op = "UnchangedSyncIds"
    /\ delete
    /\ \E id \in lastOp.ev.ids : \E r \in rows : r.syncid = id
    /\ \E id \in lastOp.ev.ids : \A r \in rows : r.syncid # id
    /\ rows = lastOp.before
    /\ lastOp.ev.ids \subseteq seen

\* The scenario's second run: all flags set, the destination holds only
\* row A, the scenario's stream has been consumed and the run has ended
ScenarioDone ==
    /\ script = ScenarioStream
    /\ persist /\ strict /\ delete
    /\ cycle = 1
    /\ rowsAtStart = {Row(1, "User", "U1", "a")}
    /\ pc = "done"

\* C14 as stated: the scenario's second run ends with row A removed and G
\* untouched: the destination holds for G1 what it held at the start.
C14_ScenarioUntouched ==
    ScenarioDone
        => /\ \A r \in committed : r.syncid # "U1"
           /\ {r \in committed : r.syncid = "G1"}
                 = {r \in rowsAtStart : r.syncid = "G1"}

\* C14 as amended: the scenario's second run ends with row A removed and
\* with G created by its ChangedEntry and kept by the deletion and by the
\* sweep: the destination holds exactly the new row of G.
C14_ScenarioCreated ==
    ScenarioDone
        => /\ \A r \in committed : r.syncid # "U1"
           /\ \E k \in Keys(committed) \ Keys(rowsAtStart) :
                 committed = {Row(k, "Group", "G1", "g")}
           /\ rows = committed

C14_Witness ==
    /\ ScenarioDone
    /\ lastOp.op = "WriteCookie"
    /\ seen = {"G1"}
    /\ wcookie.complete = 1
    /\ stateDurable["cookie"] = "c1"
    /\ Cardinality(committed) = 1

\* The last step fetched a search entry response of one item that carries
\* one syncStateControl
FetchedItem ==
    /\ lastOp.op = "Fetch"
    /\ lastOp.res.type = RES_SEARCH_ENTRY
    /\ Len(lastOp.res.data) = 1
    /\ Len(Head(lastOp.res.data).ctrls) = 1
    /\ Head(Head(lastOp.res.data).ctrls).ctype = "SyncStateControl"

ItemSync == Head(Head(lastOp.res.data).ctrls)

ItemAttrs == Head(lastOp.res.data).attrs

\* The SyncCookie event expected for a cookie: none when there is no cookie
CookieOf(cookie) == IF cookie # None THEN <<SyncCookie(cookie)>> ELSE <<>>

\* One of the object classes is the User's or the Group's
Recognised(objectclasses) ==
    \E i \in DOMAIN objectclasses :
        Lower(objectclasses[i]) \in {"person", "groupofnames"}

NotCookie(e) == e.type # "SyncCookie"

\* C15 as stated: for a search entry item with a syncStateControl, state
\* present yields exactly UnchangedSyncIds({id}), state delete exactly
\* DeletedSyncIds({id}), any other state exactly one ChangedEntry; in each
\* case a SyncCookie follows if and only if the control carried a cookie.
C15_EntryMapping ==
    FetchedItem
        => LET sync == ItemSync
               tail == CookieOf(sync.cookie)
           IN  IF sync.state = "present"
               THEN pending = <<UnchangedSyncIds({sync.entryUUID})>> \o tail
               ELSE IF sync.state = "delete"
               THEN pending = <<DeletedSyncIds({sync.entryUUID})>> \o tail
               ELSE /\ Len(pending) = 1 + Len(tail)
                    /\ pending[1].type = "ChangedEntry"
                    /\ SubSeq(pending, 2, Len(pending)) = tail

\* C15 as amended: as above, but for any other state the one ChangedEntry
\* (and the cookie after it) is yielded when the entry is of a configured
\* object class and carries no identifier other than the control's;
\* otherwise a fatal error is raised and nothing is yielded, the cookie
\* neither.
C15_EntryMappingOrError ==
    FetchedItem
        => LET sync == ItemSync
               attrs == ItemAttrs
               tail == CookieOf(sync.cookie)
           IN  IF sync.state = "present"
               THEN pending = <<UnchangedSyncIds({sync.entryUUID})>> \o tail /\ werr = ""
               ELSE IF sync.state = "delete"
               THEN pending = <<DeletedSyncIds({sync.entryUUID})>> \o tail /\ werr = ""
               ELSE IF /\ Recognised(attrs.objectclass)
                       /\ attrs.entryuuid \in {None, sync.entryUUID}
               THEN /\ werr = ""
                    /\ Len(pending) = 1 + Len(tail)
                    /\ pending[1].type = "ChangedEntry"
                    /\ pending[1].kind \in Kinds
                    /\ pending[1].syncid = sync.entryUUID
                    /\ pending[1].name = attrs.cn
                    /\ SubSeq(pending, 2, Len(pending)) = tail
               ELSE /\ pending = <<>>
                    /\ werr \in {"LdapUnrecognisedEntryError",
                                 "LdapSyncIdMismatchError"}

C15_Witness ==
    /\ FetchedItem
    /\ ItemSync.state = "add"
    /\ ItemSync.cookie = "c1"
    /\ Len(pending) = 2
    /\ pending[1].type = "ChangedEntry"
    /\ pending[2] = SyncCookie("c1")

\* The last step fetched an intermediate response of one data item
FetchedInfo ==
    /\ lastOp.op = "Fetch"
    /\ lastOp.res.type = RES_INTERMEDIATE
    /\ Len(lastOp.res.data) = 1

\* C16: for an intermediate response, a bare cookie update yields only
\* SyncCookie; a refresh-delete marker yields RefreshComplete(FALSE) if and
\* only if its refreshDone flag is set, a refresh-present marker
\* RefreshComplete(TRUE) if and only if its flag is set; an id-set yields
\* DeletedSyncIds(ids) when refreshDeletes is set and UnchangedSyncIds(ids)
\* otherwise; any other shape raises a protocol error and yields nothing.
C16_IntermediateMapping ==
    FetchedInfo
        => LET item == Head(lastOp.res.data)
               msg == item.msg
               events == SelectSeq(pending, NotCookie)
           IN  IF item.name # SyncInfoName
               THEN pending = <<>> /\ werr = "LdapProtocolError"
               ELSE IF msg.choice = "newcookie"
               THEN pending = <<SyncCookie(msg.cookie)>> /\ werr = ""
               ELSE IF msg.choice = "refreshDelete"
               THEN /\ events = IF msg.refreshDone THEN <<RefreshComplete(FALSE)>>
                                ELSE <<>>
                    /\ werr = ""
               ELSE IF msg.choice = "refreshPresent"
               THEN /\ events = IF msg.refreshDone THEN <<RefreshComplete(TRUE)>>
                                ELSE <<>>
                    /\ werr = ""
               ELSE IF msg.choice = "syncIdSet"
               THEN /\ events = <<IF msg.refreshDeletes
                                  THEN DeletedSyncIds(msg.syncUUIDs)
                                  ELSE UnchangedSyncIds(msg.syncUUIDs)>>
                    /\ werr = ""
               ELSE pending = <<>> /\ werr = "LdapProtocolError"

C16_Witness ==
    /\ FetchedInfo
    /\ Head(lastOp.res.data).msg.choice = "refreshDelete"
    /\ Head(lastOp.res.data).msg.refreshDone
    /\ pending = <<RefreshComplete(FALSE), SyncCookie("c2")>>

\* The response is a search result whose syncDoneControl carries a cookie
DoneWithCookie(res) ==
    /\ res.type = RES_SEARCH_RESULT
    /\ Len(res.ctrls) = 1
    /\ Head(res.ctrls).ctype = "SyncDoneControl"
    /\ Head(res.ctrls).cookie # None

\* C17: on a search result the Watcher emits RefreshComplete(autodelete =
\* not refreshDeletes), then SyncCookie with the final cookie, and the
\* iteration ends: in this cycle no response is fetched and no event is
\* emitted after it.
C17_ResultEndsIteration ==
    [][/\ (lastOp'.op = "Fetch" /\ DoneWithCookie(lastOp'.res))
            => /\ pending' = <<RefreshComplete(~Head(lastOp'.res.ctrls).refreshDeletes),
                               SyncCookie(Head(lastOp'.res.ctrls).cookie)>>
               /\ werr' = ""
               /\ wstop'
       /\ (wstop /\ cycle' = cycle)
            => /\ wstop'
               /\ nresp' = nresp
               /\ wcookie' = wcookie
               /\ lastOp'.op # "Fetch"
               /\ \/ pending' = pending
                  \/ pending # <<>> /\ pending' = Tail(pending)]_vars

C17_Witness ==
    /\ wstop
    /\ script = <<>>
    /\ nresp < MaxResponses
    /\ lastOp.op = "SyncCookie"
    /\ pending = <<>>
    /\ pc = "streaming"
    /\ wcookie.complete = 1
    /\ held = wcookie.last

\* C18: in one-shot mode every completed event sequence of the Watcher (one
\* that a search result ended) holds exactly one RefreshComplete event.
C18_OneRefreshComplete ==
    (mode = "refreshOnly" /\ wstop /\ werr = "")
        => wcookie.complete = 1

\* C19: in persistent mode the iteration does not end with an intermediate
\* response, also not one that yields RefreshComplete: it ends only with a
\* search result (or a fatal error), and events of later responses are
\* emitted after the RefreshComplete.
C19_PersistentContinues ==
    [][mode = "refreshAndPersist"
          => /\ (wstop' /\ ~wstop)
                  => lastOp'.op = "Fetch" /\ lastOp'.res.type = RES_SEARCH_RESULT
             /\ (lastOp'.op = "Fetch" /\ lastOp'.res.type # RES_SEARCH_RESULT)
                  => ~wstop']_vars

C19_Witness ==
    /\ mode = "refreshAndPersist"
    /\ pc = "streaming"
    /\ ~wstop
    /\ wcookie.complete >= 1
    /\ lastOp.op = "ChangedEntry"
    /\ nresp >= 2

\* C20: a ChangedEntry the Watcher emits carries the permanent identifier of
\* its syncStateControl: an entry that carries another identifier raises
\* the fatal SyncId mismatch error, and neither the entry nor the item's
\* cookie is emitted; an entry that carries none is given the control's.
C20_SyncIdAgrees ==
    (FetchedItem /\ ItemSync.state \notin {"present", "delete"}
                 /\ Recognised(ItemAttrs.objectclass))
        => /\ \A i \in DOMAIN pending :
                 pending[i].type = "ChangedEntry"
                    => pending[i].syncid = ItemSync.entryUUID
           /\ ItemAttrs.entryuuid \notin {None, ItemSync.entryUUID}
                 => /\ pending = <<>>
                    /\ werr = "LdapSyncIdMismatchError"
           /\ ItemAttrs.entryuuid = None
                 => /\ pending # <<>>
                    /\ pending[1].type = "ChangedEntry"
                    /\ pending[1].syncid = ItemSync.entryUUID

C20_Witness ==
    /\ FetchedItem
    /\ ItemAttrs.entryuuid \notin {None, ItemSync.entryUUID}
    /\ ItemSync.cookie # None
    /\ Recognised(ItemAttrs.objectclass)
    /\ werr = "LdapSyncIdMismatchError"
    /\ pending = <<>>

\* The table of the first object class of the list that is the User's or
\* the Group's, compared in lower case
FirstKind(objectclasses) ==
    LET I == {i \in DOMAIN objectclasses :
                 Lower(objectclasses[i]) \in {Lower(UserObjectClass),
                                              Lower(GroupObjectClass)}}
        m == CHOOSE i \in I : \A j \in I : i <= j
    IN  IF Lower(objectclasses[m]) = Lower(UserObjectClass) THEN "User"
        ELSE "Group"

\* C21: an add/modify entry is classified as User or Group by the first
\* value of its object class list that equals, case-insensitively, the
\* configured User or Group object class; when no value does, the fatal
\* unrecognised-entry error is raised and no event is emitted for the entry.
C21_FirstMatchClassifies ==
    (FetchedItem /\ ItemSync.state \notin {"present", "delete"})
        => IF Recognised(ItemAttrs.objectclass)
           THEN werr = ""
                  => /\ pending # <<>>
                     /\ pending[1].type = "ChangedEntry"
                     /\ pending[1].kind = FirstKind(ItemAttrs.objectclass)
                     /\ \A i \in DOMAIN pending :
                           pending[i].type = "ChangedEntry" => i = 1
           ELSE /\ pending = <<>>
                /\ werr = "LdapUnrecognisedEntryError"

C21_Witness ==
    /\ FetchedItem
    /\ Len(ItemAttrs.objectclass) = 2
    /\ Lower(ItemAttrs.objectclass[1]) = Lower(GroupObjectClass)
    /\ ItemAttrs.objectclass[1] # GroupObjectClass
    /\ Lower(ItemAttrs.objectclass[2]) = Lower(UserObjectClass)
    /\ pending # <<>>
    /\ pending[1].type = "ChangedEntry"
    /\ pending[1].kind = "Group"

\* Some control of the list is of the class
HasControl(ctrls, ctype) == \E i \in DOMAIN ctrls : ctrls[i].ctype = ctype

\* The items of a search entry response without syncStateControl
Uncontrolled(data) ==
    {i \in DOMAIN data : ~HasControl(data[i].ctrls, "SyncStateControl")}

\* The response lacks what its kind requires, or is of no known kind
Malformed(res) ==
    \/ res.type = RES_SEARCH_ENTRY /\ Uncontrolled(res.data) # {}
    \/ res.type = RES_INTERMEDIATE
          /\ \A i \in DOMAIN res.data : res.data[i].name # SyncInfoName
    \/ res.type = RES_SEARCH_RESULT /\ ~HasControl(res.ctrls, "SyncDoneControl")
    \/ res.type \notin {RES_SEARCH_ENTRY, RES_INTERMEDIATE, RES_SEARCH_RESULT}

\* C22 as stated: for a search entry item without syncStateControl, an
\* intermediate response without syncInfoMessage, a search result without
\* syncDoneControl or a response of another kind, the fatal protocol error
\* is raised and no event is emitted for the response.
C22_ProtocolErrorNoEvent ==
    (lastOp.op = "Fetch" /\ Malformed(lastOp.res))
        => /\ werr = "LdapProtocolError"
           /\ pending = <<>>
           /\ ~wstop

\* C22 as amended: as above, but of a search entry response the events of
\* the items that precede the first item without syncStateControl are
\* emitted before the error is raised; no event is emitted for that item or
\* for a later one.
C22_ProtocolErrorNoLaterEvent ==
    (lastOp.op = "Fetch" /\ Malformed(lastOp.res))
        => LET data == lastOp.res.data
               k == CHOOSE i \in Uncontrolled(data) :
                       \A j \in Uncontrolled(data) : i <= j
               before == watch_search_entries(SubSeq(data, 1, k - 1))
           IN  /\ ~wstop
               /\ IF lastOp.res.type = RES_SEARCH_ENTRY
                  THEN /\ pending = before.events
                       /\ before.err = "" => werr = "LdapProtocolError"
                  ELSE /\ pending = <<>>
                       /\ werr = "LdapProtocolError"

C22_Witness ==
    /\ lastOp.op = "Fetch"
    /\ lastOp.res.type = RES_SEARCH_ENTRY
    /\ Uncontrolled(lastOp.res.data) = {2}
    /\ werr = "LdapProtocolError"
    /\ Len(pending) = 2
    /\ pending[2].type = "SyncCookie"

----------------------------------------------------------------------------
(* The stream of the Watcher: SpecWatch                                    *)

\* The events of out, in order
EventsOf(o) ==
    LET e == SelectSeq(o, LAMBDA x : ~x.raw)
    IN  [i \in DOMAIN e |-> e[i].ev]

\* The events LdapDatabase.watch derives from the first n responses
RECURSIVE BaseEvents(_)
BaseEvents(n) ==
    IF n = 0 THEN <<>> ELSE BaseEvents(n - 1) \o watch(script[n]).events

\* Those of them that have been yielded
BaseEmitted ==
    SubSeq(BaseEvents(nresp), 1, Len(BaseEvents(nresp)) - Len(pending))

\* C23: through IpaDatabase.watch every RefreshComplete has autodelete
\* false in one-shot mode with a request cookie, autodelete true in
\* persistent mode without one, and the autodelete of the underlying watch
\* in the two other combinations.
C23_VendorAutodelete ==
    vendor
      => /\ Len(EventsOf(out)) = Len(BaseEmitted)
         /\ \A i \in DOMAIN EventsOf(out) :
               EventsOf(out)[i].type = "RefreshComplete"
                 => EventsOf(out)[i].autodelete =
                      (IF ~persist /\ reqCookie # None THEN FALSE
                       ELSE IF persist /\ reqCookie = None THEN TRUE
                       ELSE BaseEmitted[i].autodelete)

C23_Witness ==
    /\ vendor
    /\ ~persist
    /\ reqCookie # None
    /\ \E i \in DOMAIN EventsOf(out) :
          /\ EventsOf(out)[i].type = "RefreshComplete"
          /\ EventsOf(out)[i].autodelete = FALSE
          /\ BaseEmitted[i].autodelete = TRUE

\* C24: IpaDatabase.watch yields one event per event of the underlying
\* watch, in the same order; every event other than RefreshComplete is
\* yielded as it is, a RefreshComplete is yielded as a RefreshComplete, and
\* iteration aborts only where the underlying watch raises.
C24_VendorOnlyAutodelete ==
    vendor
      => /\ Len(EventsOf(out)) = Len(BaseEmitted)
         /\ \A i \in DOMAIN EventsOf(out) :
               IF BaseEmitted[i].type = "RefreshComplete"
               THEN [EventsOf(out)[i] EXCEPT !.autodelete = None]
                      = [BaseEmitted[i] EXCEPT !.autodelete = None]
               ELSE EventsOf(out)[i] = BaseEmitted[i]
         /\ pc = "aborted" => watch(script[nresp]).err # ""

C24_Witness ==
    /\ vendor
    /\ persist
    /\ reqCookie = None
    /\ pc = "done"
    /\ \E i \in DOMAIN EventsOf(out) :
          /\ EventsOf(out)[i].type = "RefreshComplete"
          /\ EventsOf(out)[i].autodelete # BaseEmitted[i].autodelete
    /\ \E i \in DOMAIN EventsOf(out) : EventsOf(out)[i].type = "SyncCookie"
    /\ \E i \in DOMAIN EventsOf(out) : EventsOf(out)[i].type = "UnchangedSyncIds"

\* A SyncCookie of the sequence is followed by nothing but SyncCookies
CookieLast(events) ==
    \A i, j \in DOMAIN events :
        (i < j /\ events[i].type = "SyncCookie") => events[j].type = "SyncCookie"

\* The events yielded for response n so far, in order
EventsOfResponse(n) ==
    EventsOf(SelectSeq(out, LAMBDA x : x.resp = n))

\* The response numbers of out never decrease, the events of out are those
\* the responses stand for in the order of the responses, and the events of
\* the responses before the last one fetched are all in out
InResponseOrder ==
    /\ \A i, j \in DOMAIN out : i < j => out[i].resp <= out[j].resp
    /\ \A i \in DOMAIN out : out[i].resp \in 1..nresp
    /\ EventsOf(out) \o pending = Yielded(BaseEvents(nresp))
    /\ \A n \in 1..(nresp - 1) :
          EventsOfResponse(n) = Yielded(watch(script[n]).events)

\* The events of each item of a response, item by item; a response that is
\* no search entry is one item
PerItem(res) ==
    IF res.type = RES_SEARCH_ENTRY
    THEN [k \in DOMAIN res.data |->
             watch(LdapResult(res.type, <<res.data[k]>>, res.ctrls)).events]
    ELSE <<watch(res).events>>

RECURSIVE Flatten(_)
Flatten(seqs) == IF seqs = <<>> THEN <<>> ELSE Head(seqs) \o Flatten(Tail(seqs))

IsPrefix(a, b) == Len(a) <= Len(b) /\ a = SubSeq(b, 1, Len(a))

\* C27 as stated: one sync search per watch; events in the order of their
\* responses, those of a response all yielded before the next response is
\* fetched; within one response a SyncCookie comes after the response's
\* other events.
C27_OrderedCookieLast ==
    /\ searches = (IF pc = "idle" THEN 0 ELSE 1)
    /\ InResponseOrder
    /\ \A n \in 1..nresp : CookieLast(EventsOfResponse(n))

\* C27 as amended: as above, but a SyncCookie comes after the other events
\* of its item: of a search entry response with several items, the events
\* are those of the items in order, each item's SyncCookie last.
C27_OrderedItemCookieLast ==
    /\ searches = (IF pc = "idle" THEN 0 ELSE 1)
    /\ InResponseOrder
    /\ \A n \in 1..nresp :
          /\ IsPrefix(EventsOfResponse(n), Yielded(Flatten(PerItem(script[n]))))
          /\ \A k \in DOMAIN PerItem(script[n]) : CookieLast(PerItem(script[n])[k])

C27_Witness ==
    /\ nresp = 2
    /\ script[1] = TwoEntries("c1")
    /\ Len(EventsOfResponse(1)) = 3
    /\ EventsOfResponse(1)[2].type = "SyncCookie"
    /\ EventsOfResponse(1)[3].type = "DeletedSyncIds"
    /\ Len(EventsOfResponse(2)) = 2
    /\ EventsOfResponse(2)[2].type = "SyncCookie"
    /\ searches = 1

\* The raw responses of out, in order
RawOf(o) ==
    LET e == SelectSeq(o, LAMBDA x : x.raw)
    IN  [i \in DOMAIN e |-> e[i].res]

\* C30: with trace, each response is yielded raw before any event derived
\* from it; with or without trace, the events yielded are those the
\* responses stand for, in order, none changed or dropped.
C30_TraceTransparent ==
    /\ EventsOf(out) \o pending = Yielded(BaseEvents(nresp))
    /\ RawOf(out) = (IF trace THEN SubSeq(script, 1, nresp) ELSE <<>>)
    /\ \A j \in DOMAIN out :
          (trace /\ ~out[j].raw)
            => \E i \in 1..(j - 1) :
                  out[i].raw /\ out[i].resp = out[j].resp
                    /\ out[i].res = script[out[j].resp]

C30_Witness ==
    /\ trace
    /\ pc = "done"
    /\ nresp = 2
    /\ Len(out) = 6
    /\ out[1].raw /\ ~out[2].raw /\ ~out[3].raw /\ out[4].raw /\ ~out[5].raw
    /\ EventsOf(out) = Yielded(BaseEvents(2))

----------------------------------------------------------------------------
(* The seen set: SpecReplay                                                *)

\* The events of the cycle the Reconciler has handled
Handled ==
    SubSeq(BaseEvents(nresp), 1, Len(BaseEvents(nresp)) - Len(pending))

\* The identifiers an event names as changed or unchanged, and as deleted
Present(e) ==
    IF e.type = "ChangedEntry" THEN {e.syncid}
    ELSE IF e.type = "UnchangedSyncIds" THEN e.ids
    ELSE {}

Gone(e) == IF e.type = "DeletedSyncIds" THEN e.ids ELSE {}

\* C28: while a cycle streams, seen is the set of the identifiers of the
\* ChangedEntry and UnchangedSyncIds events handled in the cycle that no
\* later DeletedSyncIds event of the cycle names, whatever the delete flag.
C28_SeenExact ==
    pc = "streaming"
      => seen = {id \in SyncIds \cup {"G1"} :
                   \E i \in DOMAIN Handled :
                       /\ id \in Present(Handled[i])
                       /\ \A j \in DOMAIN Handled :
                             j > i => id \notin Gone(Handled[j])}

C28_Witness ==
    /\ pc = "streaming"
    /\ ~delete
    /\ pending # <<>>
    /\ Head(pending).type = "RefreshComplete"
    /\ \E i, j \in DOMAIN Handled :
          /\ i < j
          /\ Handled[i].type = "ChangedEntry"
          /\ Handled[i].syncid \in Gone(Handled[j])
          /\ Handled[i].syncid \notin seen
    /\ seen # {}

----------------------------------------------------------------------------
(* The trace codec: SpecCodec                                              *)

\* A line of the form <oid> <true|false> <base64>: one word, one space,
\* true or false, one space, and groups of four base64 characters of which
\* the last may end with padding
IsBase64(text) ==
    /\ Len(text) % 4 = 0
    /\ \A i \in DOMAIN text :
          \/ \E k \in DOMAIN B64Alphabet : B64Alphabet[k] = text[i]
          \/ text[i] = B64Pad /\ i > Len(text) - 2
                /\ \A j \in i..Len(text) : text[j] = B64Pad

HasControlForm(line) ==
    /\ Len(line) >= 4
    /\ line[1] # Space
    /\ line[2] = Space
    /\ line[3] \in {"true", "false"}
    /\ line[4] = Space
    /\ IsBase64(SubSeq(line, 5, Len(line)))

\* C29: a control written by to_ldif and read by from_ldif comes back with
\* its oid, criticality and encoded value, whatever they are (an empty
\* encoded value included); a line that has not the form
\* <oid> <true|false> <base64> raises the invalid-control error and gives
\* no control.
C29_ControlRoundTrip ==
    /\ (pc = "read" /\ traceIn.kind = "control")
          => traceOut.err = "" /\ traceOut.value = traceIn.ctrl
    /\ (pc = "read" /\ traceIn.kind = "line" /\ ~HasControlForm(traceText))
          => traceOut.err = "LdapInvalidControlError"

\* C25: a response written by LdapResult.write and read by LdapResult.read
\* comes back with its type, its response controls and, for each item, its
\* name, its payload and its controls.
C25_TraceRoundTrip ==
    (pc = "read" /\ traceIn.kind = "result")
        => traceOut.err = "" /\ traceOut.value = traceIn.res

----------------------------------------------------------------------------
(* Two concurrent runs: SpecConcurrent                                     *)

\* The rows after the events are handled by one run alone
RECURSIVE RunAlone(_, _, _)
RunAlone(tbl, key, events) ==
    IF events = <<>> THEN tbl
    ELSE IF Head(events).type = "ChangedEntry"
    THEN LET done == changed_strict(tbl, key, Head(events))
         IN  RunAlone(done.rows, done.nextKey, Tail(events))
    ELSE RunAlone(tbl, key, Tail(events))

\* The rows after run a, then run b, each alone
Serial(a, b) ==
    LET first == RunAlone(store.initial, Cardinality(store.initial) + 1,
                          ScriptEvents(RunScript(a)))
    IN  RunAlone(first, Cardinality(first) + 1, ScriptEvents(RunScript(b)))

\* C26: when two strict runs on disjoint identifiers have ended, whatever
\* the interleaving, the destination's rows are those of one of the two
\* serial executions, and the state table holds one cookie, the cookie of
\* one of the runs.
C26_ConcurrentRunsSafe ==
    (\A r \in DOMAIN sessions : sessions[r].pc \in {"done", "failed"})
        /\ sessions # <<>>
      => /\ Content(store.rows) \in {Content(Serial(1, 2)), Content(Serial(2, 1))}
         /\ \E row \in store.state :
               /\ row.key = "cookie"
               /\ row.value \in {"c1", "c2"}
               /\ \A other \in store.state : other.key = "cookie" => other = row

\* The rows of table kind that carry a permanent identifier
Identified(tbl, kind) == {r \in tbl : r.kind = kind /\ r.syncid # None}

\* C31: for every identifier set ids, find_syncids(ids, invert=False) and
\* find_syncids(ids, invert=True) return disjoint sets of rows whose union
\* is exactly the rows with a non-null permanent identifier; a row with no
\* permanent identifier is returned by neither, so the autodelete sweep
\* removes no such row.
C31_InvertPartitions ==
    /\ lastOp.op = "find_syncids"
          => /\ lastOp.within \cap lastOp.without = {}
             /\ lastOp.within \cup lastOp.without
                   = Identified(lastOp.before, lastOp.kind)
             /\ \A r \in lastOp.before :
                   r.syncid = None
                      => r \notin lastOp.within /\ r \notin lastOp.without
    /\ lastOp.op = "sweep"
          => /\ lastOp.found \subseteq lastOp.before
             /\ \A r \in lastOp.found : r.syncid # None
             /\ {r \in lastOp.before : r.syncid = None} \subseteq rows

C31_Witness ==
    /\ lastOp.op = "sweep"
    /\ lastOp.found # {}
    /\ \E kind \in Kinds :
          /\ find_syncids(lastOp.before, kind, seen, FALSE) # {}
          /\ find_syncids(lastOp.before, kind, seen, TRUE) # {}
          /\ \E r \in rows : r.kind = kind /\ r.syncid = None

\* C32: after any sequence of get, set and delete operations on the state
\* store, get(key) returns the value of the most recent set(key, v) not
\* followed by delete(key) and signals a missing key otherwise; delete(key)
\* raises no error after a get(key) that found nothing.
C32_StateStoreContract ==
    /\ kvlog.op = "get"
          => /\ kvlog.value = kvlog.expect[kvlog.key]
             /\ kvlog.err = (IF kvlog.expect[kvlog.key] = None
                             THEN "KeyError" ELSE "")
    /\ (kvlog.op = "delete" /\ kvlog.afterMiss) => kvlog.err = ""

====
